---- MODULE Spec2Model ----
(***************************************************************************)
(* Risk-scoring engine of the job-scam platform: the job-posting analysis  *)
(* of ScamDetectionService (backend/services/ml/scamDetectionService.js),  *)
(* its batch entry point, the retrainable Bayes classifier behind it, the  *)
(* administrative retrain handler of the ML controller, and the post       *)
(* analysis of SocialMediaMonitoringService.                               *)
(*                                                                         *)
(* Numbers.  Scores are fixed-point: the integer n stands for n / Scale,   *)
(* so 0.15 is 150 and 1.0 is 1000.  Every weight of the fusion rules is a  *)
(* multiple of 0.05 and classifier values are kept even, so all sums and   *)
(* the halving of line 238 are exact.                                      *)
(*                                                                         *)
(* Text.  A JavaScript string is a sequence of one-character strings, so   *)
(* that String.prototype.includes is a real substring search.              *)
(*                                                                         *)
(* Values.  Where the code names a value once and uses it several times    *)
(* (const fullText = ..., let riskScore = ...), the model binds it with a  *)
(* bound variable over a one-element set: The({e(x) : x \in {v}}).         *)
(*                                                                         *)
(* Scheduling.  Node runs one synchronous section at a time.  An async     *)
(* function body without await is one synchronous section; `running`       *)
(* names the updateModel call that holds the thread.                       *)
(***************************************************************************)
EXTENDS Integers, Sequences, FiniteSets, TLC

Scale == 1000

(***************************************************************************)
(* JavaScript values                                                       *)
(***************************************************************************)
Undefined == [type |-> "undefined"]
Null == [type |-> "null"]
Str(chars) == [type |-> "string", chars |-> chars]
Arr(items) == [type |-> "array", items |-> items]
Thrown(message) == [type |-> "throw", message |-> message]

IsNullish(v) == v.type \in {"undefined", "null"}

\* the l-value of a destructuring default: `= dflt` applies to undefined only
Default(v, dflt) == IF v.type = "undefined" THEN dflt ELSE v

\* v || '' for a string-valued field
OrEmpty(v) == IF v.type = "string" THEN v.chars ELSE <<>>

Range(s) == {s[i] : i \in DOMAIN s}

\* the element of a one-element set: The({e(x) : x \in {v}}) is e of the
\* value v, computed once as for a const declaration
The(S) == CHOOSE x \in S : TRUE

RECURSIVE SeqSum(_)
SeqSum(s) == IF s = <<>> THEN 0 ELSE Head(s) + SeqSum(Tail(s))

Min(a, b) == IF a < b THEN a ELSE b
Max(a, b) == IF a > b THEN a ELSE b

\* the elements of a finite set of integers in increasing order
Ascending(S) ==
  [k \in 1..Cardinality(S) |-> CHOOSE i \in S : Cardinality({m \in S : m < i}) = k - 1]

\* [...new Set(s)]: the first occurrences, in order
FirstOccurrences(s) == {i \in DOMAIN s : \A j \in 1..(i - 1) : s[j] # s[i]}

Dedup(s) ==
  The({The({[k \in DOMAIN order |-> found[order[k]]] :
              order \in {Ascending(FirstOccurrences(found))}}) :
         found \in {s}})

(***************************************************************************)
(* Strings                                                                 *)
(***************************************************************************)
UpperCase == <<"A","B","C","D","E","F","G","H","I","J","K","L","M","N","O","P","Q","R","S","T","U","V","W","X","Y","Z">>
LowerCase == <<"a","b","c","d","e","f","g","h","i","j","k","l","m","n","o","p","q","r","s","t","u","v","w","x","y","z">>
Digits == Range(<<"0","1","2","3","4","5","6","7","8","9">>)
WhiteSpace == {" "}

LowerChar(c) ==
  IF \E i \in DOMAIN UpperCase : UpperCase[i] = c
  THEN LowerCase[CHOOSE i \in DOMAIN UpperCase : UpperCase[i] = c]
  ELSE c

toLowerCase(s) == [i \in DOMAIN s |-> LowerChar(s[i])]

\* s.startsWith(sub, at), 1-based
StartsAt(s, sub, at) ==
  /\ at + Len(sub) - 1 <= Len(s)
  /\ \A j \in 1..Len(sub) : s[at + j - 1] = sub[j]

\* s.includes(sub)
includes(s, sub) == \E at \in 1..(Len(s) + 1) : StartsAt(s, sub, at)

\* parts.join(' ')
RECURSIVE join(_)
join(parts) ==
  IF parts = <<>> THEN <<>>
  ELSE IF Len(parts) = 1 THEN parts[1]
  ELSE parts[1] \o <<" ">> \o join(Tail(parts))

(***************************************************************************)
(* ScamDetectionService: the fixed lexicon and pattern set                 *)
(***************************************************************************)
suspiciousKeywords == <<
  \* payment-related suspicious terms
  <<"m","o","n","e","y">>, <<"p","a","y","m","e","n","t">>, <<"f","e","e">>, <<"d","e","p","o","s","i","t">>, <<"i","n","v","e","s","t","m","e","n","t">>, <<"c","a","s","h">>, <<"w","i","r","e"," ","t","r","a","n","s","f","e","r">>,
  <<"p","a","y","p","a","l">>, <<"b","i","t","c","o","i","n">>, <<"c","r","y","p","t","o","c","u","r","r","e","n","c","y">>, <<"b","a","n","k"," ","t","r","a","n","s","f","e","r">>, <<"c","r","e","d","i","t"," ","c","a","r","d">>,
  <<"u","r","g","e","n","t"," ","p","a","y","m","e","n","t">>, <<"i","m","m","e","d","i","a","t","e"," ","p","a","y","m","e","n","t">>, <<"s","i","g","n"," ","u","p"," ","f","e","e">>, <<"t","r","a","i","n","i","n","g"," ","f","e","e">>,
  \* work-from-home scams
  <<"w","o","r","k"," ","f","r","o","m"," ","h","o","m","e">>, <<"r","e","m","o","t","e"," ","w","o","r","k">>, <<"e","a","r","n"," ","m","o","n","e","y"," ","f","r","o","m"," ","h","o","m","e">>, <<"h","o","m","e"," ","b","a","s","e","d">>,
  <<"m","a","k","e"," ","m","o","n","e","y"," ","o","n","l","i","n","e">>, <<"e","a","s","y"," ","m","o","n","e","y">>, <<"q","u","i","c","k"," ","c","a","s","h">>, <<"n","o"," ","e","x","p","e","r","i","e","n","c","e"," ","n","e","e","d","e","d">>,
  <<"w","o","r","k"," ","o","n","l","i","n","e">>, <<"s","t","a","y"," ","a","t"," ","h","o","m","e">>, <<"e","x","t","r","a"," ","i","n","c","o","m","e">>, <<"s","i","d","e"," ","h","u","s","t","l","e">>,
  \* recruitment fraud
  <<"i","n","t","e","r","n","a","t","i","o","n","a","l">>, <<"a","b","r","o","a","d">>, <<"o","v","e","r","s","e","a","s">>, <<"t","r","a","v","e","l"," ","e","x","p","e","n","s","e","s">>, <<"v","i","s","a"," ","p","r","o","c","e","s","s","i","n","g">>,
  <<"f","l","i","g","h","t"," ","t","i","c","k","e","t","s">>, <<"p","a","s","s","p","o","r","t">>, <<"b","a","c","k","g","r","o","u","n","d"," ","c","h","e","c","k"," ","f","e","e">>, <<"d","o","c","u","m","e","n","t","a","t","i","o","n"," ","f","e","e">>,
  <<"s","c","r","e","e","n","i","n","g"," ","f","e","e">>, <<"i","n","t","e","r","v","i","e","w"," ","f","e","e">>, <<"p","r","o","c","e","s","s","i","n","g"," ","f","e","e">>, <<"h","a","n","d","l","i","n","g"," ","f","e","e">>,
  \* high pressure tactics
  <<"l","i","m","i","t","e","d"," ","t","i","m","e">>, <<"a","c","t"," ","n","o","w">>, <<"u","r","g","e","n","t">>, <<"i","m","m","e","d","i","a","t","e">>, <<"t","o","d","a","y"," ","o","n","l","y">>, <<"l","a","s","t"," ","c","h","a","n","c","e">>,
  <<"e","x","c","l","u","s","i","v","e"," ","o","p","p","o","r","t","u","n","i","t","y">>, <<"o","n","c","e"," ","i","n"," ","l","i","f","e","t","i","m","e">>, <<"m","u","s","t"," ","a","p","p","l","y"," ","n","o","w">>, <<"d","e","a","d","l","i","n","e">>,
  <<"h","u","r","r","y">>, <<"r","u","s","h">>, <<"e","x","p","e","d","i","t","e","d">>, <<"p","r","i","o","r","i","t","y">>, <<"f","i","r","s","t"," ","c","o","m","e"," ","f","i","r","s","t"," ","s","e","r","v","e","d">>,
  \* vague job descriptions
  <<"v","a","r","i","o","u","s"," ","d","u","t","i","e","s">>, <<"m","i","s","c","e","l","l","a","n","e","o","u","s"," ","t","a","s","k","s">>, <<"d","a","t","a"," ","e","n","t","r","y">>, <<"c","u","s","t","o","m","e","r"," ","s","e","r","v","i","c","e">>,
  <<"r","e","p","r","e","s","e","n","t","a","t","i","v","e">>, <<"c","o","o","r","d","i","n","a","t","o","r">>, <<"a","s","s","i","s","t","a","n","t">>, <<"a","g","e","n","t">>, <<"a","s","s","o","c","i","a","t","e">>,
  <<"c","l","e","r","k">>, <<"o","p","e","r","a","t","o","r">>, <<"s","p","e","c","i","a","l","i","s","t">>, <<"m","a","n","a","g","e","r">>, <<"d","i","r","e","c","t","o","r">>,
  \* red flag phrases
  <<"g","u","a","r","a","n","t","e","e","d">>, <<"r","i","s","k"," ","f","r","e","e">>, <<"n","o"," ","r","i","s","k">>, <<"h","u","g","e"," ","p","r","o","f","i","t","s">>, <<"g","u","a","r","a","n","t","e","e","d"," ","i","n","c","o","m","e">>,
  <<"n","o"," ","l","o","s","s">>, <<"p","r","o","f","i","t"," ","g","u","a","r","a","n","t","e","e">>, <<"m","o","n","e","y"," ","b","a","c","k">>, <<"s","a","t","i","s","f","a","c","t","i","o","n"," ","g","u","a","r","a","n","t","e","e","d">>,
  <<"f","r","e","e"," ","t","r","i","a","l">>, <<"n","o"," ","c","o","m","m","i","t","m","e","n","t">>, <<"c","a","n","c","e","l"," ","a","n","y","t","i","m","e">>, <<"n","o"," ","s","t","r","i","n","g","s"," ","a","t","t","a","c","h","e","d">>
>>

\* A signature is either an alternation of literals, tried in the order
\* written, or the currency-amount signature
\*   (?:\$|€|£|¥|Rs\.?)\s*\d+(?:\.\d+)?\s*(?:w1|w2|...)
\* All signatures carry the flags g and i and are applied to lowercased text.
Literals(alts) == [kind |-> "literals", alts |-> alts]
CurrencyAmount(symbols, words) ==
  [kind |-> "currency", symbols |-> symbols, words |-> words]

CurrencySymbols == << <<"$">>, <<"€">>, <<"£">>, <<"¥">>, <<"r","s",".">>, <<"r","s">> >>

suspiciousPatterns == <<
  CurrencyAmount(CurrencySymbols, << <<"f","e","e">>, <<"c","h","a","r","g","e">>, <<"c","o","s","t">>, <<"p","a","y","m","e","n","t">> >>),
  Literals(<< <<"p","a","y","p","a","l">>, <<"b","i","t","c","o","i","n">>, <<"c","r","y","p","t","o","c","u","r","r","e","n","c","y">>, <<"w","e","s","t","e","r","n"," ","u","n","i","o","n">>, <<"m","o","n","e","y","g","r","a","m">> >>),
  Literals(<< <<"w","o","r","k"," ","f","r","o","m"," ","h","o","m","e">>, <<"w","o","r","k"," ","r","e","m","o","t","e","l","y">>, <<"h","o","m","e"," ","b","a","s","e","d">>, <<"o","n","l","i","n","e"," ","w","o","r","k">> >>),
  Literals(<< <<"n","o"," ","e","x","p","e","r","i","e","n","c","e">>, <<"n","o"," ","s","k","i","l","l","s">>, <<"a","n","y","o","n","e"," ","c","a","n"," ","a","p","p","l","y">>, <<"b","e","g","i","n","n","e","r","s"," ","w","e","l","c","o","m","e">> >>),
  Literals(<< <<"u","r","g","e","n","t">>, <<"i","m","m","e","d","i","a","t","e">>, <<"n","o","w">>, <<"h","u","r","r","y">>, <<"t","o","d","a","y">>, <<"d","e","a","d","l","i","n","e">>, <<"l","a","s","t"," ","d","a","y">> >>),
  Literals(<< <<"s","i","g","n"," ","u","p"," ","f","e","e">>, <<"t","r","a","i","n","i","n","g"," ","f","e","e">>, <<"c","e","r","t","i","f","i","c","a","t","i","o","n"," ","f","e","e">>, <<"p","r","o","c","e","s","s","i","n","g"," ","f","e","e">> >>),
  Literals(<< <<"v","i","s","a">>, <<"f","l","i","g","h","t">>, <<"t","r","a","v","e","l"," ","e","x","p","e","n","s","e","s"," ","c","o","v","e","r","e","d">> >>),
  Literals(<< <<"g","u","a","r","a","n","t","e","e">>, <<"g","u","a","r","a","n","t","e","e","d">>, <<"r","i","s","k"," ","f","r","e","e">>, <<"n","o"," ","r","i","s","k">> >>)
>>

\* length of the first alternative of alts that text has at position at, or 0
FirstAltLen(text, alts, at) ==
  IF \E i \in DOMAIN alts : StartsAt(text, alts[i], at)
  THEN Len(alts[CHOOSE i \in DOMAIN alts :
                  /\ StartsAt(text, alts[i], at)
                  /\ \A j \in 1..(i - 1) : ~StartsAt(text, alts[j], at)])
  ELSE 0

\* number of consecutive characters of text from position at that are in S
RunLen(text, at, S) ==
  LET stop == {k \in at..(Len(text) + 1) : k > Len(text) \/ text[k] \notin S}
  IN  (CHOOSE k \in stop : \A m \in stop : k <= m) - at

\* the position behind the longest run of characters of S from position at
Skip(text, at, S) == at + RunLen(text, at, S)

\* length of the match of (?:\.\d+)? at position at
FractionLen(text, at) ==
  IF at <= Len(text) /\ text[at] = "." /\ RunLen(text, at + 1, Digits) > 0
  THEN 1 + RunLen(text, at + 1, Digits)
  ELSE 0

\* the currency signature matches the characters at..(end - 1) of text:
\* symbol, \s*, \d+, (?:\.\d+)?, \s*, word.  Every quantifier is greedy and
\* no shorter choice can rescue a failed match, so the greedy scan is the
\* backtracking matcher's answer.
CurrencyMatches(text, pat, at, end) ==
  \E amount \in {Skip(text, at + FirstAltLen(text, pat.symbols, at), WhiteSpace)} :
    /\ FirstAltLen(text, pat.symbols, at) > 0
    /\ \E fraction \in {Skip(text, amount, Digits)} :
         /\ fraction > amount
         /\ \E word \in {Skip(text, fraction + FractionLen(text, fraction), WhiteSpace)} :
              /\ FirstAltLen(text, pat.words, word) > 0
              /\ end = word + FirstAltLen(text, pat.words, word)

\* length of the match of the currency signature at position at, or 0
CurrencyMatchLen(text, pat, at) ==
  IF FirstAltLen(text, pat.symbols, at) = 0 THEN 0
  ELSE IF \E end \in (at + 1)..(Len(text) + 1) : CurrencyMatches(text, pat, at, end)
  THEN (CHOOSE end \in (at + 1)..(Len(text) + 1) : CurrencyMatches(text, pat, at, end)) - at
  ELSE 0

MatchLen(text, pat, at) ==
  IF pat.kind = "literals" THEN FirstAltLen(text, pat.alts, at)
  ELSE CurrencyMatchLen(text, pat, at)

\* text.match(pattern) for a global pattern: the non-overlapping matches
\* from left to right, the search resuming behind each match (<<>> stands
\* for the null of "no match")
RECURSIVE match(_, _, _)
match(text, pat, from) ==
  LET starts == {i \in from..Len(text) : MatchLen(text, pat, i) > 0}
  IN  IF starts = {} THEN <<>>
      ELSE The({The({<<SubSeq(text, at, at + n - 1)>> \o match(text, pat, at + n) :
                       n \in {MatchLen(text, pat, at)}}) :
                  at \in {i \in starts : \A m \in starts : i <= m}})

RECURSIVE Flatten(_)
Flatten(ss) == IF ss = <<>> THEN <<>> ELSE Head(ss) \o Flatten(Tail(ss))

\* the rule words 'engineer' and 'visa' looked for as well
FlaggedKeywordsWithRuleWords(fullText, vocabulary) ==
  SelectSeq(vocabulary \o << <<"e","n","g","i","n","e","e","r">>, <<"v","i","s","a">> >>,
            LAMBDA keyword : includes(fullText, toLowerCase(keyword)))

\* the entries found, in the order in which they first appear in the text
FlaggedKeywordsInTextOrder(fullText, vocabulary) ==
  LET found == SelectSeq(vocabulary, LAMBDA keyword : includes(fullText, toLowerCase(keyword)))
      at(i) == CHOOSE p \in 1..(Len(fullText) + 1) :
                 /\ StartsAt(fullText, toLowerCase(found[i]), p)
                 /\ \A q \in 1..(p - 1) : ~StartsAt(fullText, toLowerCase(found[i]), q)
      before(i, j) == at(i) < at(j) \/ (at(i) = at(j) /\ i < j)
      rank(i) == Cardinality({j \in DOMAIN found : before(j, i)}) + 1
  IN  [k \in DOMAIN found |-> found[CHOOSE i \in DOMAIN found : rank(i) = k]]

\* lines 123-130: the vocabulary entries found in the text, vocabulary order
FlaggedKeywords(fullText, vocabulary) ==
  Dedup(SelectSeq(vocabulary, LAMBDA keyword : includes(fullText, toLowerCase(keyword))))

\* lines 132-140: the distinct matched substrings, pattern by pattern
FlaggedPatterns(fullText, patterns) ==
  Dedup(Flatten([i \in DOMAIN patterns |-> match(fullText, patterns[i], 1)]))

(***************************************************************************)
(* Sentiment (the `sentiment` package) and the Bayes classifier (the       *)
(* `natural` package) are libraries outside the repository.  They are      *)
(* modelled by their contracts: a lexicon polarity sum over the tokens,    *)
(* and a classifier whose answer is a deterministic function of the        *)
(* examples covered by the last train() and of the text.                   *)
(***************************************************************************)
WordChars == Range(LowerCase) \cup Digits

\* the maximal runs of letters and digits of a lowercased text
Split(text) ==
  LET word(i) == i >= 1 /\ i <= Len(text) /\ text[i] \in WordChars
      starts == Ascending({i \in DOMAIN text : word(i) /\ ~word(i - 1)})
      ends == Ascending({i \in DOMAIN text : word(i) /\ ~word(i + 1)})
  IN  [k \in DOMAIN starts |-> SubSeq(text, starts[k], ends[k])]

Tokens(text) == Split(toLowerCase(text))

\* a fragment of the AFINN polarity table
Polarity(token) ==
  CASE token = <<"a","m","a","z","i","n","g">> -> 4
    [] token = <<"w","i","n">> -> 4
    [] token = <<"g","r","e","a","t">> -> 3
    [] token = <<"e","x","c","e","l","l","e","n","t">> -> 3
    [] token = <<"f","r","e","e">> -> 1
    [] token = <<"e","a","s","y">> -> 1
    [] token = <<"u","r","g","e","n","t">> -> -1
    [] token = <<"f","r","a","u","d">> -> -4
    [] OTHER -> 0

\* line 196: this.sentiment.analyze(fullText).  comparative = score / tokens
\* (0 without tokens); the quotient is kept as the pair (score, tokens).
SentimentAnalyze(fullText) ==
  LET tokens == Tokens(fullText)
      scores == [i \in DOMAIN tokens |-> Polarity(tokens[i])]
  IN  [score |-> SeqSum(scores),
       tokens |-> Len(tokens),
       positive |-> SelectSeq(tokens, LAMBDA t : Polarity(t) > 0),
       negative |-> SelectSeq(tokens, LAMBDA t : Polarity(t) < 0)]

\* sentimentScore.comparative > num / den, for den > 0
ComparativeAbove(sentimentScore, num, den) ==
  /\ sentimentScore.tokens > 0
  /\ sentimentScore.score * den > num * sentimentScore.tokens

\* A training example carries the name of its text; Chars gives the characters.
Example(text, label) == [type |-> "object", text |-> text, label |-> label]

Chars(text) ==
  CASE text = "seed1" -> <<"W","o","r","k"," ","f","r","o","m"," ","h","o","m","e"," ","m","a","k","i","n","g"," ","$","5","0","0","0"," ","p","e","r"," ","w","e","e","k","!"," ","N","o"," ","e","x","p","e","r","i","e","n","c","e"," ","n","e","e","d","e","d","."," ","S","i","g","n"," ","u","p"," ","f","e","e"," ","r","e","q","u","i","r","e","d",".">>
    [] text = "seed2" -> <<"E","a","r","n"," ","m","o","n","e","y"," ","o","n","l","i","n","e","!"," ","S","e","n","d"," ","$","2","0","0"," ","t","o"," ","g","e","t"," ","s","t","a","r","t","e","d","."," ","E","a","s","y"," ","p","a","y","m","e","n","t","s","."," ","U","r","g","e","n","t","!">>
    [] text = "seed3" -> <<"I","n","t","e","r","n","a","t","i","o","n","a","l"," ","c","o","m","p","a","n","y"," ","h","i","r","i","n","g","!"," ","P","a","y"," ","p","r","o","c","e","s","s","i","n","g"," ","f","e","e"," ","o","f"," ","$","1","5","0"," ","f","o","r"," ","v","i","s","a","."," ","A","c","t"," ","n","o","w","!">>
    [] text = "seed4" -> <<"M","a","k","e"," ","m","o","n","e","y"," ","f","r","o","m"," ","h","o","m","e","!"," ","N","o"," ","s","k","i","l","l","s"," ","r","e","q","u","i","r","e","d","!"," ","W","i","r","e"," ","t","r","a","n","s","f","e","r"," ","p","a","y","m","e","n","t"," ","o","n","l","y","!">>
    [] text = "seed5" -> <<"E","a","r","n"," ","b","i","g"," ","m","o","n","e","y"," ","f","a","s","t","!"," ","I","n","v","e","s","t","m","e","n","t"," ","r","e","q","u","i","r","e","d","."," ","R","i","s","k"," ","f","r","e","e"," ","g","u","a","r","a","n","t","e","e","!">>
    [] text = "seed6" -> <<"S","o","f","t","w","a","r","e"," ","E","n","g","i","n","e","e","r"," ","p","o","s","i","t","i","o","n","."," ","3","+"," ","y","e","a","r","s"," ","e","x","p","e","r","i","e","n","c","e"," ","r","e","q","u","i","r","e","d","."," ","C","o","m","p","e","t","i","t","i","v","e"," ","s","a","l","a","r","y",".">>
    [] text = "seed7" -> <<"M","a","r","k","e","t","i","n","g"," ","c","o","o","r","d","i","n","a","t","o","r"," ","n","e","e","d","e","d","."," ","B","a","c","h","e","l","o","r","'","s"," ","d","e","g","r","e","e"," ","r","e","q","u","i","r","e","d","."," ","B","e","n","e","f","i","t","s"," ","i","n","c","l","u","d","e","d",".">>
    [] text = "seed8" -> <<"J","o","i","n"," ","o","u","r"," ","t","e","a","m"," ","o","f"," ","p","r","o","f","e","s","s","i","o","n","a","l","s","."," ","G","r","e","a","t"," ","w","o","r","k"," ","e","n","v","i","r","o","n","m","e","n","t","."," ","A","p","p","l","y"," ","t","o","d","a","y",".">>
    [] text = "seed9" -> <<"S","e","n","i","o","r"," ","d","e","v","e","l","o","p","e","r"," ","r","o","l","e","."," ","E","x","p","e","r","i","e","n","c","e"," ","w","i","t","h"," ","R","e","a","c","t"," ","a","n","d"," ","N","o","d","e",".","j","s","."," ","R","e","m","o","t","e"," ","w","o","r","k"," ","a","v","a","i","l","a","b","l","e",".">>
    [] text = "seed10" -> <<"C","u","s","t","o","m","e","r"," ","s","e","r","v","i","c","e"," ","r","e","p","r","e","s","e","n","t","a","t","i","v","e","."," ","E","x","c","e","l","l","e","n","t"," ","c","o","m","m","u","n","i","c","a","t","i","o","n"," ","s","k","i","l","l","s"," ","n","e","e","d","e","d","."," ","F","u","l","l","-","t","i","m","e",".">>
    [] text = "new1" -> <<"G","u","a","r","a","n","t","e","e","d"," ","i","n","c","o","m","e",","," ","n","o"," ","r","i","s","k",":"," ","s","e","n","d"," ","a"," ","d","e","p","o","s","i","t"," ","t","o","d","a","y">>
    [] text = "new2" -> <<"S","e","n","i","o","r"," ","a","n","a","l","y","s","t"," ","p","o","s","i","t","i","o","n"," ","i","n"," ","o","u","r"," ","f","i","n","a","n","c","e"," ","t","e","a","m">>
    [] text = "new3" -> <<"G","r","e","a","t"," ","a","m","a","z","i","n","g"," ","w","i","n">>

TextNames ==
  {"seed1", "seed2", "seed3", "seed4", "seed5", "seed6", "seed7", "seed8", "seed9",
   "seed10", "new1", "new2", "new3"}

\* lines 62-76: the seed corpus
SeedTrainingData == <<
  Example("seed1", "scam"), Example("seed2", "scam"), Example("seed3", "scam"),
  Example("seed4", "scam"), Example("seed5", "scam"),
  Example("seed6", "legitimate"), Example("seed7", "legitimate"),
  Example("seed8", "legitimate"), Example("seed9", "legitimate"),
  Example("seed10", "legitimate")
>>

\* the tokens of each example text, tabulated
ExampleTokens == [text \in TextNames |-> Range(Tokens(Chars(text)))]


(***************************************************************************)
(* ScamDetectionService.analyzeJobPosting                                  *)
(***************************************************************************)
\* flaggedKeywords.some(kw => words.includes(kw))
SomeIn(flaggedKeywords, words) ==
  \E i \in DOMAIN flaggedKeywords : flaggedKeywords[i] \in Range(words)

PaymentWords == << <<"f","e","e">>, <<"p","a","y","m","e","n","t">>, <<"d","e","p","o","s","i","t">>, <<"i","n","v","e","s","t","m","e","n","t">> >>
FeeWords == << <<"f","e","e">>, <<"p","a","y","m","e","n","t">>, <<"d","e","p","o","s","i","t">> >>
InternationalWords == << <<"i","n","t","e","r","n","a","t","i","o","n","a","l">>, <<"a","b","r","o","a","d">>, <<"o","v","e","r","s","e","a","s">>, <<"v","i","s","a">>, <<"f","l","i","g","h","t">> >>
PressureWords == << <<"u","r","g","e","n","t">>, <<"i","m","m","e","d","i","a","t","e">>, <<"a","c","t"," ","n","o","w">>, <<"l","i","m","i","t","e","d"," ","t","i","m","e">>, <<"h","u","r","r","y">> >>
VagueWords == << <<"v","a","r","i","o","u","s"," ","d","u","t","i","e","s">>, <<"m","i","s","c","e","l","l","a","n","e","o","u","s"," ","t","a","s","k","s">>, <<"d","a","t","a"," ","e","n","t","r","y">>, <<"c","u","s","t","o","m","e","r"," ","s","e","r","v","i","c","e">> >>
RoleWords == << <<"e","n","g","i","n","e","e","r">>, <<"d","e","v","e","l","o","p","e","r">>, <<"a","n","a","l","y","s","t">>, <<"m","a","n","a","g","e","r">>, <<"s","p","e","c","i","a","l","i","s","t">> >>

\* lines 92-111: destructuring with defaults and the joined, lowercased text.
\* A null jobData, company or contactInfo makes the property access throw.
NormalizeThrows(jobData) ==
  \/ IsNullish(jobData)
  \/ jobData.company.type = "null"
  \/ jobData.contactInfo.type = "null"

\* Array.prototype.join renders null and undefined elements as ''
Element(v) == IF v.type = "string" THEN v.chars ELSE <<>>

\* ...(list || [])
SpreadOrEmpty(list) ==
  IF list.type = "array" THEN [i \in DOMAIN list.items |-> Element(list.items[i])] ELSE <<>>

FullText(jobData) ==
  LET title == Default(jobData.title, Str(<<>>))
      description == Default(jobData.description, Str(<<>>))
      company == Default(jobData.company, [type |-> "object", name |-> Undefined])
      requirements == Default(jobData.requirements, Arr(<<>>))
      responsibilities == Default(jobData.responsibilities, Arr(<<>>))
      contactInfo == Default(jobData.contactInfo,
                             [type |-> "object", email |-> Undefined,
                              phone |-> Undefined, website |-> Undefined])
  IN  toLowerCase(join(<<Element(title), Element(description), OrEmpty(company.name)>>
                       \o SpreadOrEmpty(requirements)
                       \o SpreadOrEmpty(responsibilities)
                       \o <<OrEmpty(contactInfo.email), OrEmpty(contactInfo.phone),
                            OrEmpty(contactInfo.website)>>))


(***************************************************************************)
(* Inputs: the job records and training lists the operations are tried on  *)
(***************************************************************************)
NoCompany == Undefined
NoContact == Undefined

Job(id, title, description, company, requirements, contactInfo) ==
  [type |-> "object", _id |-> Str(id), title |-> title, description |-> description,
   company |-> company, requirements |-> requirements,
   responsibilities |-> Undefined, contactInfo |-> contactInfo]

Titled(id, title) == Job(id, Str(title), Undefined, NoCompany, Undefined, NoContact)

Company(name) == [type |-> "object", name |-> name]
Contact(email) ==
  [type |-> "object", email |-> email, phone |-> Undefined, website |-> Null]

Jobs == <<
  \* 1: no lexicon entry, no pattern, neutral sentiment
  Job(<<"j","1">>, Str(<<"S","o","f","t","w","a","r","e"," ","E","n","g","i","n","e","e","r">>), Str(<<"b","u","i","l","d"," ","w","e","b"," ","s","e","r","v","i","c","e","s">>),
      Company(Str(<<"A","c","m","e">>)), Arr(<<Str(<<"j","a","v","a">>)>>), Contact(Str(<<"h","r","@","a","c","m","e",".","e","x","a","m","p","l","e">>))),
  \* 2: two keywords, two red flags
  Titled(<<"j","2">>, <<"f","e","e"," ","u","r","g","e","n","t">>),
  \* 3: the posting of the specification's example
  Titled(<<"j","3">>, <<"W","o","r","k"," ","f","r","o","m"," ","h","o","m","e"," ","m","a","k","i","n","g"," ","m","o","n","e","y","!"," ","N","o"," ","e","x","p","e","r","i","e","n","c","e"," ","n","e","e","d","e","d","."," ","S","i","g","n"," ","u","p"," ","f","e","e"," ","r","e","q","u","i","r","e","d","."," ","U","r","g","e","n","t","!"," ","A","c","t"," ","n","o","w","!">>),
  \* 4: a vague phrase next to a role word that is not a lexicon entry
  Titled(<<"j","4">>, <<"d","a","t","a"," ","e","n","t","r","y"," ","e","n","g","i","n","e","e","r">>),
  \* 5: a lexicon entry inside a longer word
  Titled(<<"j","5">>, <<"c","o","f","f","e","e">>),
  \* 6: very positive sentiment without any keyword
  Titled(<<"j","6">>, <<"g","r","e","a","t"," ","a","m","a","z","i","n","g"," ","w","i","n">>),
  \* 7: work from home, abroad, deposit
  Job(<<"j","7">>, Null, Str(<<"w","o","r","k"," ","f","r","o","m"," ","h","o","m","e"," ","a","b","r","o","a","d">>), Company(Null),
      Arr(<<Str(<<"d","e","p","o","s","i","t">>), Null>>), NoContact),
  \* 8: visa and flight are no lexicon entries
  Titled(<<"j","8">>, <<"v","i","s","a"," ","f","l","i","g","h","t"," ","f","e","e">>),
  \* 9: more than ten keywords and all five red flags
  Titled(<<"j","9">>, <<"u","r","g","e","n","t"," ","p","a","y","m","e","n","t"," ","o","f"," ","s","i","g","n"," ","u","p"," ","f","e","e",","," ","d","e","p","o","s","i","t",","," ","i","n","v","e","s","t","m","e","n","t",":"," ","w","o","r","k"," ","f","r","o","m"," ","h","o","m","e"," ","a","b","r","o","a","d",","," ","i","m","m","e","d","i","a","t","e"," ","d","a","t","a"," ","e","n","t","r","y",","," ","c","a","s","h">>),
  \* 10: five keywords, no red flag
  Titled(<<"j","1","0">>, <<"c","a","s","h"," ","p","a","y","p","a","l"," ","b","i","t","c","o","i","n"," ","p","a","s","s","p","o","r","t"," ","r","u","s","h">>),
  \* 11: three keywords, two red flags
  Titled(<<"j","1","1">>, <<"f","e","e"," ","u","r","g","e","n","t"," ","c","a","s","h">>),
  \* 12: one keyword, two red flags, very positive sentiment
  Titled(<<"j","1","2">>, <<"g","r","e","a","t"," ","f","e","e"," ","h","u","r","r","y">>),
  \* 13: company is null
  Job(<<"j","1","3">>, Str(<<"f","e","e"," ","u","r","g","e","n","t">>), Undefined, Null, Undefined, NoContact),
  \* 14: contactInfo is null
  Job(<<"j","1","4">>, Str(<<"c","l","e","r","k">>), Undefined, NoCompany, Undefined, Null),
  \* 15: the item itself is null
  Null,
  \* 16: work from home without any payment word
  Titled(<<"j","1","6">>, <<"r","e","m","o","t","e"," ","w","o","r","k"," ","f","r","o","m"," ","h","o","m","e">>),
  \* 17: a vague phrase next to a role word that is a lexicon entry
  Titled(<<"j","1","7">>, <<"c","u","s","t","o","m","e","r"," ","s","e","r","v","i","c","e"," ","m","a","n","a","g","e","r">>),
  \* 18: no keyword, neutral words that occur in scam examples only
  Titled(<<"j","1","8">>, <<"S","t","a","r","t","e","d"," ","m","a","k","i","n","g"," ","b","i","g">>)
>>

\* lines 123-140 and 196 depend on the text alone; they are tabulated for the
\* texts of the job records above
ComputeSignals(fullText) ==
  [flaggedKeywords |-> FlaggedKeywords(fullText, suspiciousKeywords),
   flaggedPatterns |-> FlaggedPatterns(fullText, suspiciousPatterns),
   sentimentScore |-> SentimentAnalyze(fullText),
   tokens |-> Range(Tokens(fullText))]

JobTexts == {FullText(Jobs[j]) : j \in {i \in DOMAIN Jobs : ~NormalizeThrows(Jobs[i])}}

SignalTable == [fullText \in JobTexts |-> ComputeSignals(fullText)]

Signals(fullText) == SignalTable[fullText]

\* the examples of a trained corpus that share a token with the text (the
\* whole corpus when none does)
Evidence(corpus, tokens) ==
  IF \E i \in DOMAIN corpus : ExampleTokens[corpus[i].text] \cap tokens # {}
  THEN SelectSeq(corpus, LAMBDA ex : ExampleTokens[ex.text] \cap tokens # {})
  ELSE corpus

CountLabel(examples, label) == Len(SelectSeq(examples, LAMBDA ex : ex.label = label))

\* class value of a label: its share among the evidence, an even number of
\* 1/Scale
ClassValue(evidence, label) ==
  2 * (((Scale \div 2) * CountLabel(evidence, label)) \div Len(evidence))

\* the entry of a class seen in training
Classification(trainedCorpus, evidence, label) ==
  IF \E i \in DOMAIN trainedCorpus : trainedCorpus[i].label = label
  THEN <<[label |-> label, value |-> ClassValue(evidence, label)]>>
  ELSE <<>>

\* the entries, highest value first
Ranked(scam, legitimate) ==
  IF scam # <<>> /\ legitimate # <<>> /\ legitimate[1].value > scam[1].value
  THEN legitimate \o scam
  ELSE scam \o legitimate

\* line 217: this.bayesClassifier.getClassifications(fullText) on the model
\* built by the last train(): one entry per class seen in training, highest
\* value first; empty when nothing was trained
getClassifications(trainedCorpus, text) ==
  The({Ranked(Classification(trainedCorpus, evidence, "scam"),
              Classification(trainedCorpus, evidence, "legitimate")) :
         evidence \in {Evidence(trainedCorpus, Signals(text).tokens)}})

\* a twentieth per keyword
keywordRiskScoreTwentieth(flaggedKeywords) ==
  IF Len(flaggedKeywords) > 0
  THEN Min((Len(flaggedKeywords) * Scale) \div 20, Scale)
  ELSE 0

\* lines 142-146
keywordRiskScore(flaggedKeywords) ==
  IF Len(flaggedKeywords) > 0
  THEN Min((Len(flaggedKeywords) * Scale) \div 10, Scale)
  ELSE 0

\* lines 148-193: the red flags, in the order they are pushed
RedFlags(flaggedKeywords) ==
  (IF SomeIn(flaggedKeywords, PaymentWords) THEN <<"payment_required">> ELSE <<>>)
  \o (IF <<"w","o","r","k"," ","f","r","o","m"," ","h","o","m","e">> \in Range(flaggedKeywords) /\ SomeIn(flaggedKeywords, FeeWords)
      THEN <<"work_from_home_payment">> ELSE <<>>)
  \o (IF SomeIn(flaggedKeywords, InternationalWords) /\ SomeIn(flaggedKeywords, FeeWords)
      THEN <<"international_fee">> ELSE <<>>)
  \o (IF SomeIn(flaggedKeywords, PressureWords) THEN <<"high_pressure">> ELSE <<>>)
  \o (IF SomeIn(flaggedKeywords, VagueWords) /\ ~SomeIn(flaggedKeywords, RoleWords)
      THEN <<"vague_description">> ELSE <<>>)

\* work_from_home_scam pushed without looking for a payment word
ScamTypesWithoutFeeCheck(flaggedKeywords) ==
  (IF SomeIn(flaggedKeywords, PaymentWords) THEN <<"advance_fee_fraud">> ELSE <<>>)
  \o (IF <<"w","o","r","k"," ","f","r","o","m"," ","h","o","m","e">> \in Range(flaggedKeywords)
      THEN <<"work_from_home_scam">> ELSE <<>>)
  \o (IF SomeIn(flaggedKeywords, InternationalWords) /\ SomeIn(flaggedKeywords, FeeWords)
      THEN <<"recruitment_fraud">> ELSE <<>>)

\* lines 156, 165, 176: the scam types pushed next to the first three flags
ScamTypes(flaggedKeywords) ==
  (IF SomeIn(flaggedKeywords, PaymentWords) THEN <<"advance_fee_fraud">> ELSE <<>>)
  \o (IF <<"w","o","r","k"," ","f","r","o","m"," ","h","o","m","e">> \in Range(flaggedKeywords) /\ SomeIn(flaggedKeywords, FeeWords)
      THEN <<"work_from_home_scam">> ELSE <<>>)
  \o (IF SomeIn(flaggedKeywords, InternationalWords) /\ SomeIn(flaggedKeywords, FeeWords)
      THEN <<"recruitment_fraud">> ELSE <<>>)

\* the bonus given from a comparative of 0 on
SentimentWeightNonNegative(sentimentScore) ==
  IF sentimentScore.score >= 0 THEN Scale \div 10 ELSE 0

\* lines 229-232
SentimentWeight(sentimentScore) ==
  IF ComparativeAbove(sentimentScore, 1, 2) THEN Scale \div 10 ELSE 0

\* the score left as it is
ClampMissing(riskScore) == riskScore

\* line 242
Clamp(riskScore) == Min(Max(riskScore, 0), Scale)

\* the average taken of the clamped score
BayesAdjustAfterClamp(riskScore, bayesResult) ==
  IF bayesResult.type = "array" /\ Len(bayesResult.items) > 0
  THEN LET found == SelectSeq(bayesResult.items, LAMBDA c : c.label = "scam")
           scamProbability == IF found # <<>> THEN found[1].value ELSE 0
       IN  (Clamp(riskScore) + scamProbability) \div 2
  ELSE riskScore

\* lines 234-239: bayesResult is Null when the classifier threw
BayesAdjust(riskScore, bayesResult) ==
  IF bayesResult.type = "array" /\ Len(bayesResult.items) > 0
  THEN LET found == SelectSeq(bayesResult.items, LAMBDA c : c.label = "scam")
           scamProbability == IF found # <<>> THEN found[1].value ELSE 0
       IN  (riskScore + scamProbability) \div 2
  ELSE riskScore

\* lines 222-242
RiskScore(flaggedKeywords, redFlags, sentimentScore, bayesResult) ==
  Clamp(BayesAdjust(keywordRiskScore(flaggedKeywords)
                    + (Len(redFlags) * 15 * Scale) \div 100
                    + SentimentWeight(sentimentScore),
                    bayesResult))

\* one half counted as scam
IsScamAtHalf(riskScore) == 2 * riskScore >= Scale

\* line 245
IsScam(riskScore) == 2 * riskScore > Scale

Recommendation(category, detail) == [category |-> category, detail |-> detail]

\* lines 248-264
Recommendations(isScam, flaggedKeywords, redFlags) ==
  (IF isScam
   THEN <<Recommendation("investigate", <<>>), Recommendation("consider_removing", <<>>),
          Recommendation("notify_moderators", <<>>)>>
   ELSE <<Recommendation("appears_legitimate", <<>>),
          Recommendation("continue_monitoring", <<>>)>>)
  \o (IF Len(flaggedKeywords) > 0
      THEN <<Recommendation("review_keywords",
                            SubSeq(flaggedKeywords, 1, Min(5, Len(flaggedKeywords))))>>
      ELSE <<>>)
  \o (IF Len(redFlags) > 0 THEN <<Recommendation("red_flags", redFlags)>> ELSE <<>>)

\* the classifier's answer used although the query threw
ClassifyIgnoringThrow(trainedCorpus, fullText, classifierThrows) ==
  Arr(getClassifications(trainedCorpus, fullText))

\* lines 214-220: the classifier's answer, or Null when it threw
Classify(trainedCorpus, fullText, classifierThrows) ==
  IF classifierThrows THEN Null ELSE Arr(getClassifications(trainedCorpus, fullText))

\* lines 113-121 and 244-266: the analysis object returned
Analysis(flaggedKeywords, flaggedPatterns, redFlags, sentimentScore, riskScore) ==
  [type |-> "analysis",
   isScam |-> IsScam(riskScore),
   confidence |-> riskScore,
   scamTypes |-> ScamTypes(flaggedKeywords),
   flaggedKeywords |-> flaggedKeywords,
   flaggedPatterns |-> flaggedPatterns,
   riskFactors |-> redFlags,
   recommendations |-> Recommendations(IsScam(riskScore), flaggedKeywords, redFlags),
   sentiment |-> sentimentScore]

\* lines 123-266, for the text of lines 102-111
AnalyzeText(fullText, trainedCorpus, classifierThrows) ==
  The({The({Analysis(signals.flaggedKeywords, signals.flaggedPatterns, redFlags,
                     signals.sentimentScore, riskScore) :
              riskScore \in {RiskScore(signals.flaggedKeywords, redFlags,
                                       signals.sentimentScore, bayesResult)}}) :
         signals \in {Signals(fullText)},
         redFlags \in {RedFlags(Signals(fullText).flaggedKeywords)},
         bayesResult \in {Classify(trainedCorpus, fullText, classifierThrows)}})

\* lines 91-267: the value the returned promise settles with
analyzeJobPosting(jobData, trainedCorpus, classifierThrows) ==
  IF NormalizeThrows(jobData) THEN Thrown("TypeError")
  ELSE The({AnalyzeText(fullText, trainedCorpus, classifierThrows) :
              fullText \in {FullText(jobData)}})

(***************************************************************************)
(* SocialMediaMonitoringService.analyzeSocialMediaContent                  *)
(***************************************************************************)
socialKeywords == <<
  \* job scam keywords
  <<"w","o","r","k"," ","f","r","o","m"," ","h","o","m","e">>, <<"e","a","r","n"," ","m","o","n","e","y"," ","o","n","l","i","n","e">>, <<"m","a","k","e"," ","m","o","n","e","y"," ","f","r","o","m"," ","h","o","m","e">>, <<"e","a","s","y"," ","m","o","n","e","y">>,
  <<"q","u","i","c","k"," ","c","a","s","h">>, <<"n","o"," ","e","x","p","e","r","i","e","n","c","e"," ","n","e","e","d","e","d">>, <<"u","r","g","e","n","t"," ","h","i","r","i","n","g">>, <<"i","n","t","e","r","n","a","t","i","o","n","a","l"," ","j","o","b">>,
  <<"v","i","s","a"," ","p","r","o","c","e","s","s","i","n","g">>, <<"f","l","i","g","h","t"," ","t","i","c","k","e","t","s"," ","p","a","i","d">>, <<"w","o","r","k"," ","a","b","r","o","a","d">>, <<"r","e","m","o","t","e"," ","j","o","b">>,
  \* financial scam keywords
  <<"i","n","v","e","s","t","m","e","n","t"," ","o","p","p","o","r","t","u","n","i","t","y">>, <<"g","u","a","r","a","n","t","e","e","d"," ","r","e","t","u","r","n","s">>, <<"h","i","g","h"," ","p","r","o","f","i","t">>, <<"n","o"," ","r","i","s","k">>,
  <<"g","e","t"," ","r","i","c","h"," ","q","u","i","c","k">>, <<"m","o","n","e","y"," ","m","a","k","i","n","g">>, <<"p","a","s","s","i","v","e"," ","i","n","c","o","m","e">>, <<"s","i","d","e"," ","h","u","s","t","l","e">>,
  \* phishing/social engineering keywords
  <<"c","l","i","c","k"," ","h","e","r","e">>, <<"l","i","m","i","t","e","d"," ","t","i","m","e">>, <<"a","c","t"," ","n","o","w">>, <<"u","r","g","e","n","t">>, <<"w","i","n","n","e","r">>, <<"c","o","n","g","r","a","t","u","l","a","t","i","o","n","s">>,
  <<"f","r","e","e"," ","m","o","n","e","y">>, <<"p","r","i","z","e">>, <<"l","o","t","t","e","r","y">>, <<"i","n","h","e","r","i","t","a","n","c","e">>, <<"c","l","a","i","m"," ","n","o","w">>,
  \* fraudulent schemes
  <<"p","y","r","a","m","i","d"," ","s","c","h","e","m","e">>, <<"m","u","l","t","i","-","l","e","v","e","l"," ","m","a","r","k","e","t","i","n","g">>, <<"r","e","f","e","r","r","a","l"," ","p","r","o","g","r","a","m">>, <<"a","f","f","i","l","i","a","t","e">>,
  <<"b","i","n","a","r","y"," ","o","p","t","i","o","n","s">>, <<"c","r","y","p","t","o"," ","i","n","v","e","s","t","m","e","n","t">>, <<"b","i","t","c","o","i","n"," ","m","i","n","i","n","g">>, <<"f","o","r","e","x"," ","t","r","a","d","i","n","g">>
>>

socialPatterns == <<
  CurrencyAmount(CurrencySymbols, << <<"f","e","e">>, <<"c","h","a","r","g","e">>, <<"c","o","s","t">>, <<"i","n","v","e","s","t","m","e","n","t">> >>),
  Literals(<< <<"p","a","y","p","a","l">>, <<"b","i","t","c","o","i","n">>, <<"c","r","y","p","t","o","c","u","r","r","e","n","c","y">>, <<"w","e","s","t","e","r","n"," ","u","n","i","o","n">>, <<"m","o","n","e","y","g","r","a","m">> >>),
  Literals(<< <<"w","o","r","k"," ","f","r","o","m"," ","h","o","m","e">>, <<"w","o","r","k"," ","r","e","m","o","t","e","l","y">>, <<"h","o","m","e"," ","b","a","s","e","d">>, <<"o","n","l","i","n","e"," ","w","o","r","k">> >>),
  Literals(<< <<"n","o"," ","e","x","p","e","r","i","e","n","c","e">>, <<"n","o"," ","s","k","i","l","l","s">>, <<"a","n","y","o","n","e"," ","c","a","n"," ","a","p","p","l","y">>, <<"b","e","g","i","n","n","e","r","s"," ","w","e","l","c","o","m","e">> >>),
  Literals(<< <<"u","r","g","e","n","t">>, <<"i","m","m","e","d","i","a","t","e">>, <<"n","o","w">>, <<"h","u","r","r","y">>, <<"t","o","d","a","y">>, <<"d","e","a","d","l","i","n","e">>, <<"l","a","s","t"," ","d","a","y">> >>),
  Literals(<< <<"s","i","g","n"," ","u","p"," ","f","e","e">>, <<"t","r","a","i","n","i","n","g"," ","f","e","e">>, <<"c","e","r","t","i","f","i","c","a","t","i","o","n"," ","f","e","e">>, <<"p","r","o","c","e","s","s","i","n","g"," ","f","e","e">> >>),
  Literals(<< <<"v","i","s","a">>, <<"f","l","i","g","h","t">>, <<"t","r","a","v","e","l"," ","e","x","p","e","n","s","e","s"," ","c","o","v","e","r","e","d">> >>),
  Literals(<< <<"g","u","a","r","a","n","t","e","e">>, <<"g","u","a","r","a","n","t","e","e","d">>, <<"r","i","s","k"," ","f","r","e","e">>, <<"n","o"," ","r","i","s","k">> >>)
>>

Num(n) == [type |-> "number", value |-> n]
Engagement(likes, followers) == [type |-> "object", likes |-> likes, followers |-> followers]
Post(text, engagement) == [type |-> "object", text |-> text, engagement |-> engagement]

Posts == <<
  \* 1: nothing suspicious
  Post(Str(<<"L","o","v","e","l","y"," ","w","e","a","t","h","e","r"," ","i","n"," ","t","h","e"," ","p","a","r","k">>), Undefined),
  \* 2: one keyword, likes/followers = 0.625
  Post(Str(<<"E","a","r","n"," ","m","o","n","e","y"," ","o","n","l","i","n","e"," ","w","i","t","h"," ","u","s">>), Engagement(Num(500), Num(800))),
  \* 3: more than five keywords, more than four pattern matches, liked by all
  Post(Str(<<"W","o","r","k"," ","f","r","o","m"," ","h","o","m","e",":"," ","e","a","s","y"," ","m","o","n","e","y",","," ","q","u","i","c","k"," ","c","a","s","h",","," ","n","o"," ","r","i","s","k","!"," ","U","r","g","e","n","t",","," ","a","c","t"," ","n","o","w",","," ","l","i","m","i","t","e","d"," ","t","i","m","e","."," ","P","a","y","p","a","l"," ","o","r"," ","b","i","t","c","o","i","n",","," ","v","i","s","a"," ","p","a","i","d",".">>),
       Engagement(Num(90), Num(100))),
  \* 4: very positive sentiment only
  Post(Str(<<"G","r","e","a","t"," ","a","m","a","z","i","n","g"," ","w","i","n">>), Null),
  \* 5: an account without followers
  Post(Str(<<"C","l","a","i","m"," ","n","o","w"," ","y","o","u","r"," ","p","r","i","z","e">>), Engagement(Num(10), Num(0))),
  \* 6: four keywords
  Post(Str(<<"l","o","t","t","e","r","y"," ","w","i","n","n","e","r",":"," ","p","r","i","z","e",","," ","i","n","h","e","r","i","t","a","n","c","e">>), Engagement(Num(1), Num(100))),
  \* 7: text is null
  Post(Null, Undefined),
  \* 8: text is not a string
  Post(Num(42), Undefined),
  \* 9: the post itself is null
  Null,
  \* 10: 'investment' alone is no lexicon entry
  Post(Str(<<"A"," ","s","o","u","n","d"," ","i","n","v","e","s","t","m","e","n","t"," ","p","l","a","n">>), Undefined),
  \* 11: one financial keyword, one pattern match
  Post(Str(<<"G","u","a","r","a","n","t","e","e","d"," ","r","e","t","u","r","n","s">>), Undefined),
  \* 12: one scheme keyword
  Post(Str(<<"J","o","i","n"," ","o","u","r"," ","p","y","r","a","m","i","d"," ","s","c","h","e","m","e">>), Undefined),
  \* 13: three keywords of three kinds, two pattern matches
  Post(Str(<<"W","o","r","k"," ","f","r","o","m"," ","h","o","m","e"," ","p","y","r","a","m","i","d"," ","s","c","h","e","m","e",","," ","n","o"," ","r","i","s","k">>), Undefined),
  \* 14: the same text, liked by three of four followers
  Post(Str(<<"W","o","r","k"," ","f","r","o","m"," ","h","o","m","e"," ","p","y","r","a","m","i","d"," ","s","c","h","e","m","e",","," ","n","o"," ","r","i","s","k">>), Engagement(Num(3), Num(4))),
  \* 15: two keywords, liked by exactly half of the followers
  Post(Str(<<"R","e","f","e","r","r","a","l"," ","p","r","o","g","r","a","m",":"," ","m","a","k","e"," ","m","o","n","e","y"," ","f","r","o","m"," ","h","o","m","e">>), Engagement(Num(1), Num(2))),
  \* 16: three keywords, one pattern match
  Post(Str(<<"H","i","g","h"," ","p","r","o","f","i","t"," ","m","u","l","t","i","-","l","e","v","e","l"," ","m","a","r","k","e","t","i","n","g",","," ","a","c","t"," ","n","o","w">>), Engagement(Num(5), Undefined)),
  \* 17: no text at all
  Post(Undefined, Undefined),
  \* 18: followers but no likes
  Post(Str(<<"C","l","a","i","m"," ","n","o","w"," ","y","o","u","r"," ","p","r","i","z","e">>), Engagement(Num(0), Num(100))),
  \* 19: six keywords, none of a financial or scheme kind
  Post(Str(<<"W","o","r","k"," ","f","r","o","m"," ","h","o","m","e",","," ","e","a","s","y"," ","m","o","n","e","y",","," ","q","u","i","c","k"," ","c","a","s","h",","," ","u","r","g","e","n","t"," ","h","i","r","i","n","g",","," ","a","c","t"," ","n","o","w">>), Undefined),
  \* 20: seven other keywords, no scam type
  Post(Str(<<"L","o","t","t","e","r","y"," ","w","i","n","n","e","r","!"," ","C","l","a","i","m"," ","n","o","w"," ","y","o","u","r"," ","p","r","i","z","e",","," ","l","i","m","i","t","e","d"," ","t","i","m","e",","," ","c","l","i","c","k"," ","h","e","r","e",","," ","f","r","e","e"," ","m","o","n","e","y">>), Undefined),
  \* 21: suspicious, engagement is null
  Post(Str(<<"E","a","s","y"," ","m","o","n","e","y",","," ","q","u","i","c","k"," ","c","a","s","h",","," ","a","c","t"," ","n","o","w",","," ","c","l","i","c","k"," ","h","e","r","e">>), Null),
  \* 22: keywords shared with 19 and 20
  Post(Str(<<"U","r","g","e","n","t",":"," ","a","c","t"," ","n","o","w",","," ","q","u","i","c","k"," ","c","a","s","h"," ","p","r","i","z","e"," ","f","o","r"," ","e","v","e","r","y"," ","w","i","n","n","e","r">>), Undefined)
>>

\* lines 137-145: destructuring and text.toLowerCase(); text defaults to ''
\* only when it is undefined
SocialThrows(content) ==
  IF IsNullish(content) THEN TRUE
  ELSE Default(content.text, Str(<<>>)).type # "string"

SocialText(content) == toLowerCase(Default(content.text, Str(<<>>)).chars)

SocialComputeSignals(fullText) ==
  [flaggedKeywords |-> FlaggedKeywords(fullText, socialKeywords),
   flaggedPatterns |-> FlaggedPatterns(fullText, socialPatterns),
   sentimentScore |-> SentimentAnalyze(fullText)]

SocialTexts == {SocialText(Posts[p]) : p \in {i \in DOMAIN Posts : ~SocialThrows(Posts[i])}}

SocialSignalTable == [fullText \in SocialTexts |-> SocialComputeSignals(fullText)]

SocialSignals(fullText) == SocialSignalTable[fullText]

\* any number, 0 included
IsNumber(v) == v.type = "number"

\* a number that is neither 0 nor NaN
Truthy(v) == v.type = "number" /\ v.value # 0

\* line 206-207: likes / followers > 0.5; a division by 0 gives Infinity,
\* -Infinity or NaN
RatioAboveHalf(likes, followers) ==
  IF followers > 0 THEN 2 * likes > followers
  ELSE IF followers < 0 THEN 2 * likes < followers
  ELSE likes > 0

\* lines 204-210
EngagementWeight(engagement) ==
  IF /\ engagement.type = "object"
     /\ Truthy(engagement.followers)
     /\ Truthy(engagement.likes)
     /\ RatioAboveHalf(engagement.likes.value, engagement.followers.value)
  THEN Scale \div 5
  ELSE 0

\* lines 194-197
SocialKeywordRisk(flaggedKeywords) ==
  IF Len(flaggedKeywords) > 0 THEN Min((Len(flaggedKeywords) * Scale) \div 10, Scale \div 2) ELSE 0

\* lines 199-202
SocialPatternRisk(flaggedPatterns) ==
  IF Len(flaggedPatterns) > 0
  THEN Min((Len(flaggedPatterns) * 15 * Scale) \div 100, Scale \div 2)
  ELSE 0

\* lines 212-215
SocialSentimentWeight(sentimentScore) ==
  IF ComparativeAbove(sentimentScore, 4, 5) THEN (15 * Scale) \div 100 ELSE 0

\* line 218
SocialCap(riskScore) == Min(riskScore, Scale)

\* lines 191-218.  The sum is taken in decimal fixed point.  The IEEE double
\* sum of the code lies on the same side of 0.3, 0.4, 0.6 and 0.8 for every
\* combination of terms but two: three pattern matches (3 * 0.15 is
\* 0.44999999999999996) with the sentiment term and either the engagement
\* term or two keywords give 0.7999999999999999, below 0.8.  No post of
\* Posts has three pattern matches.
SocialRiskScore(flaggedKeywords, flaggedPatterns, engagement, sentimentScore) ==
  SocialCap(SocialKeywordRisk(flaggedKeywords) + SocialPatternRisk(flaggedPatterns)
            + EngagementWeight(engagement) + SocialSentimentWeight(sentimentScore))

\* the bands closed above instead of below
RiskLevelClosedAbove(riskScore) ==
  IF 10 * riskScore <= 3 * Scale THEN "low"
  ELSE IF 10 * riskScore <= 6 * Scale THEN "medium"
  ELSE IF 10 * riskScore <= 8 * Scale THEN "high"
  ELSE "critical"

\* lines 222-231
RiskLevel(riskScore) ==
  IF 10 * riskScore < 3 * Scale THEN "low"
  ELSE IF 10 * riskScore < 6 * Scale THEN "medium"
  ELSE IF 10 * riskScore < 8 * Scale THEN "high"
  ELSE "critical"

\* the threshold itself counted as suspicious
IsSuspiciousAtThreshold(riskScore) == 10 * riskScore >= 4 * Scale

\* line 233
IsSuspicious(riskScore) == 10 * riskScore > 4 * Scale

\* lines 235-252
DetectedScamTypes(flaggedKeywords) ==
  (IF SomeIn(flaggedKeywords, << <<"w","o","r","k"," ","f","r","o","m"," ","h","o","m","e">>, <<"e","a","r","n"," ","m","o","n","e","y"," ","o","n","l","i","n","e">>, <<"m","a","k","e"," ","m","o","n","e","y"," ","f","r","o","m"," ","h","o","m","e">> >>)
   THEN <<"work_from_home_scam">> ELSE <<>>)
  \o (IF SomeIn(flaggedKeywords, << <<"i","n","v","e","s","t","m","e","n","t">>, <<"g","u","a","r","a","n","t","e","e","d"," ","r","e","t","u","r","n","s">>, <<"h","i","g","h"," ","p","r","o","f","i","t">>, <<"n","o"," ","r","i","s","k">> >>)
      THEN <<"investment_fraud">> ELSE <<>>)
  \o (IF SomeIn(flaggedKeywords, << <<"p","y","r","a","m","i","d"," ","s","c","h","e","m","e">>, <<"m","u","l","t","i","-","l","e","v","e","l"," ","m","a","r","k","e","t","i","n","g">>, <<"r","e","f","e","r","r","a","l"," ","p","r","o","g","r","a","m">> >>)
      THEN <<"pyramid_scheme">> ELSE <<>>)

\* lines 136-255: the value the returned promise settles with
SocialAnalysis(signals, riskScore) ==
  [type |-> "analysis",
   isSuspicious |-> IsSuspicious(riskScore),
   confidence |-> riskScore,
   detectedScamTypes |-> DetectedScamTypes(signals.flaggedKeywords),
   flaggedKeywords |-> signals.flaggedKeywords,
   flaggedPatterns |-> signals.flaggedPatterns,
   sentiment |-> signals.sentimentScore,
   riskLevel |-> RiskLevel(riskScore)]

\* engagement = {} applies to undefined only
EngagementOf(content) ==
  Default(content.engagement, [type |-> "object", likes |-> Undefined, followers |-> Undefined])

analyzeSocialMediaContent(content) ==
  IF SocialThrows(content) THEN Thrown("TypeError")
  ELSE The({The({SocialAnalysis(signals, riskScore) :
                   riskScore \in {SocialRiskScore(signals.flaggedKeywords,
                                                  signals.flaggedPatterns,
                                                  engagement, signals.sentimentScore)}}) :
              signals \in {SocialSignals(SocialText(content))},
              engagement \in {EngagementOf(content)}})

(***************************************************************************)
(* Inputs of batchAnalyze (positions in Jobs) and of the retrain handler   *)
(***************************************************************************)
BatchInputs == {
  <<3, 10>>,
  <<16, 7>>,
  <<13, 14>>,
  <<2, 13, 1>>,
  <<1, 15, 2>>,
  <<1, 2, 14, 3, 5>>
}

NewScam == Example("new1", "scam")
NewLegitimate == Example("new2", "legitimate")
NewWin == Example("new3", "scam")

\* req.body.trainingData
WellFormedList == Arr(<<NewLegitimate, NewWin>>)
MalformedList == Arr(<<NewWin, Null, NewLegitimate>>)
TrainingInputs == {Arr(<<NewScam>>), WellFormedList, MalformedList, Arr(<<Null>>), Undefined}

Roles == {"admin", "user"}

\* the probe texts of the retrain scenarios
ProbeJobs == {6}

MaxRetrains == 2
MaxDocuments == 5

Retrains == 1..MaxRetrains

(***************************************************************************)
(* State                                                                   *)
(***************************************************************************)
VARIABLES
  bayesClassifier,  \* docs: the documents added; trained: those covered by the last train()
  docOwner,         \* for each document, the retrain request that added it (0: constructor)
  tfidfDocuments,   \* number of documents in this.tfidf
  running,          \* the updateModel call holding the thread, 0 when none
  retrain,          \* per retrain request: the position of its handler
  lastAnalysis,     \* the most recent analyzeJobPosting call and its outcome
  lastSocial,       \* the most recent analyzeSocialMediaContent call and its outcome
  batch,            \* the batchAnalyze call
  stored,           \* the SuspiciousActivity collection, in order of creation
  monitor,          \* the monitorSocialMedia or monitorUserAccounts call
  trending          \* the most recent getTrendingSuspiciousTopics call and its result

vars == <<bayesClassifier, docOwner, tfidfDocuments, running, retrain, lastAnalysis, lastSocial, batch,
         stored, monitor, trending>>

None == [type |-> "none"]

\* no monitoring call in progress
IdleMonitor == [status |-> "idle"]

IdleRetrain ==
  [pc |-> "idle", trainingData |-> Undefined, next |-> 0, before |-> None, after |-> None]

IdleBatch ==
  [status |-> "idle", items |-> <<>>, next |-> 0, results |-> <<>>, summary |-> None]

\* lines 10-58 and 60-86: the constructor adds the seed documents and trains
Init ==
  /\ bayesClassifier = [docs |-> SeedTrainingData, trained |-> SeedTrainingData]
  /\ docOwner = [i \in DOMAIN SeedTrainingData |-> 0]
  /\ tfidfDocuments = 0
  /\ running = 0
  /\ retrain = [r \in Retrains |-> IdleRetrain]
  /\ lastAnalysis = None
  /\ lastSocial = None
  /\ batch = IdleBatch
  /\ stored = <<>>
  /\ monitor = IdleMonitor
  /\ trending = None

(***************************************************************************)
(* analyzeJobPosting as a call: one synchronous section                    *)
(***************************************************************************)
\* line 205: this.tfidf.addDocument(fullText), reached unless lines 92-111 threw
TfidfAfter(count, outcome) == IF outcome.type = "analysis" THEN count + 1 ELSE count

\* the scores of lines 206-212, read from the store, returned with the result
ReturnValueWithTfidfScores(analysis, store) ==
  IF analysis.type = "analysis" THEN analysis @@ [tfidfScores |-> store] ELSE analysis

\* line 266: return analysis; the scores of lines 206-212 stay local
ReturnValue(analysis, store) == analysis

AnalyzeJobPosting(j, classifierThrows) ==
  /\ running = 0
  /\ tfidfDocuments < MaxDocuments
  /\ \E outcome \in {ReturnValue(analyzeJobPosting(Jobs[j], bayesClassifier.trained, classifierThrows),
                                tfidfDocuments)} :
       /\ lastAnalysis' = [type |-> "call", job |-> j,
                           classifierThrows |-> classifierThrows,
                           observed |-> bayesClassifier, outcome |-> outcome]
       /\ tfidfDocuments' = TfidfAfter(tfidfDocuments, outcome)
  /\ UNCHANGED <<bayesClassifier, docOwner, running, retrain, lastSocial, batch, stored, monitor, trending>>

\* the size of the classifier's trained model reported with the result
AnalyzeSocialMediaContentReadingClassifier(p) ==
  /\ running = 0
  /\ lastSocial' = [type |-> "call", post |-> p,
                    outcome |-> [result |-> analyzeSocialMediaContent(Posts[p]),
                                 trained |-> Len(bayesClassifier.trained)]]
  /\ UNCHANGED <<bayesClassifier, docOwner, tfidfDocuments, running, retrain, lastAnalysis, batch, stored, monitor, trending>>

\* socialMediaMonitoringService.js 136-255: no field of either service is
\* read or written besides the lexicon, the patterns and the sentiment scorer
AnalyzeSocialMediaContent(p) ==
  /\ running = 0
  /\ lastSocial' = [type |-> "call", post |-> p, outcome |-> analyzeSocialMediaContent(Posts[p])]
  /\ UNCHANGED <<bayesClassifier, docOwner, tfidfDocuments, running, retrain, lastAnalysis, batch, stored, monitor, trending>>

(***************************************************************************)
(* retrainModel (ML controller) and ScamDetectionService.updateModel       *)
(***************************************************************************)
\* the thread is free, or held by the call r itself
CanRun(r) == running \in {0, r}

\* the thread given away after each document, as an await in the loop would
ThreadReleasedAfterAddDocument(r) == 0

\* updateModel's forEach is synchronous: the call keeps the thread between
\* two addDocument calls
ThreadAfterAddDocument(r) == r

\* requests are numbered in the order in which their handlers start
InArrivalOrder(r) == IF r = 1 THEN TRUE ELSE retrain[r - 1].pc # "idle"

\* part_002 155-172: role and body checks, then the call of updateModel
RetrainModelBegin(r, role, trainingData) ==
  /\ retrain[r].pc = "idle"
  /\ InArrivalOrder(r)
  /\ running = 0
  /\ IF role # "admin"
     THEN /\ retrain' = [retrain EXCEPT ![r].pc = "forbidden"]
          /\ UNCHANGED running
     ELSE IF trainingData.type # "array"
     THEN /\ retrain' = [retrain EXCEPT ![r].pc = "bad_request"]
          /\ UNCHANGED running
     ELSE /\ retrain' = [retrain EXCEPT ![r] =
                           [pc |-> "adding", trainingData |-> trainingData, next |-> 1,
                            before |-> bayesClassifier, after |-> None]]
          /\ running' = r
  /\ UNCHANGED <<bayesClassifier, docOwner, tfidfDocuments, lastAnalysis, lastSocial, batch, stored, monitor, trending>>

\* the document put in front of the corpus
addDocumentInFront(classifier, item) == [classifier EXCEPT !.docs = <<item>> \o @]

\* lines 82 and 307: BayesClassifier.addDocument appends to the corpus
addDocument(classifier, item) == [classifier EXCEPT !.docs = Append(@, item)]

\* a train() that covers the documents added since the last train() only
trainAddedSinceLastTrain(classifier) ==
  [classifier EXCEPT !.trained = SubSeq(classifier.docs, Len(classifier.trained) + 1,
                                        Len(classifier.docs))]

\* lines 85 and 310: BayesClassifier.train covers every document added so far
train(classifier) == [classifier EXCEPT !.trained = classifier.docs]

\* lines 306-308, one iteration: item.text throws on a null item, and the
\* rejection reaches the handler, which answers with a failure
UpdateModelAddDocument(r) ==
  /\ retrain[r].pc = "adding"
  /\ CanRun(r)
  /\ retrain[r].next <= Len(retrain[r].trainingData.items)
  /\ LET item == retrain[r].trainingData.items[retrain[r].next]
     IN  IF IsNullish(item)
         THEN /\ retrain' = [retrain EXCEPT ![r].pc = "failed", ![r].after = bayesClassifier]
              /\ running' = 0
              /\ UNCHANGED <<bayesClassifier, docOwner>>
         ELSE /\ bayesClassifier' = addDocument(bayesClassifier, item)
              /\ docOwner' = Append(docOwner, r)
              /\ retrain' = [retrain EXCEPT ![r].next = @ + 1]
              /\ running' = ThreadAfterAddDocument(r)
  /\ UNCHANGED <<tfidfDocuments, lastAnalysis, lastSocial, batch, stored, monitor, trending>>

\* line 310
UpdateModelTrain(r) ==
  /\ retrain[r].pc = "adding"
  /\ CanRun(r)
  /\ retrain[r].next > Len(retrain[r].trainingData.items)
  /\ bayesClassifier' = train(bayesClassifier)
  /\ retrain' = [retrain EXCEPT ![r].pc = "updated", ![r].after = bayesClassifier']
  /\ running' = 0
  /\ UNCHANGED <<docOwner, tfidfDocuments, lastAnalysis, lastSocial, batch, stored, monitor, trending>>

\* part_002 174-200: the performance log and the success answer
RetrainModelRespond(r) ==
  /\ retrain[r].pc = "updated"
  /\ running = 0
  /\ retrain' = [retrain EXCEPT ![r].pc = "responded"]
  /\ UNCHANGED <<bayesClassifier, docOwner, tfidfDocuments, running, lastAnalysis, lastSocial, batch, stored, monitor, trending>>

(***************************************************************************)
(* ScamDetectionService.batchAnalyze and the controller's summary          *)
(***************************************************************************)
\* job._id || job.id: the property access throws on a null job
JobIdThrows(job) == IsNullish(job)
JobId(job) == job._id

\* lines 286-290
DegradedAnalysis(message) ==
  [type |-> "degraded", isScam |-> FALSE, confidence |-> 0, error |-> message]

\* lines 273-274
BatchAnalyzeBegin(jobPostings) ==
  /\ batch.status \in {"idle", "returned", "threw"}
  /\ running = 0
  /\ tfidfDocuments + Len(jobPostings) <= MaxDocuments
  /\ batch' = [status |-> "running", items |-> jobPostings, next |-> 1,
               results |-> <<>>, summary |-> None]
  /\ UNCHANGED <<bayesClassifier, docOwner, tfidfDocuments, running, retrain, lastAnalysis, lastSocial, stored, monitor, trending>>

\* lines 275-293, one iteration; the await gives the thread away afterwards.
\* A throw inside the catch block rejects the whole call.
BatchAnalyzeItem(classifierThrows) ==
  /\ batch.status = "running"
  /\ running = 0
  /\ batch.next <= Len(batch.items)
  /\ \E job \in {Jobs[batch.items[batch.next]]} :
     \E outcome \in {ReturnValue(analyzeJobPosting(job, bayesClassifier.trained, classifierThrows),
                                tfidfDocuments)} :
         /\ tfidfDocuments' = TfidfAfter(tfidfDocuments, outcome)
         /\ IF outcome.type = "analysis"
            THEN batch' = [batch EXCEPT !.next = @ + 1,
                             !.results = Append(@, [jobId |-> JobId(job), analysis |-> outcome])]
            ELSE IF JobIdThrows(job)
            THEN batch' = [batch EXCEPT !.status = "threw"]
            ELSE batch' = [batch EXCEPT !.next = @ + 1,
                             !.results = Append(@, [jobId |-> JobId(job),
                                                    analysis |-> DegradedAnalysis(outcome.message)])]
  /\ UNCHANGED <<bayesClassifier, docOwner, running, retrain, lastAnalysis, lastSocial, stored, monitor, trending>>

\* part_002 99-103
Summary(results) ==
  [total |-> Len(results),
   scamsDetected |-> Len(SelectSeq(results, LAMBDA r : r.analysis.isScam)),
   legitimate |-> Len(SelectSeq(results, LAMBDA r : ~r.analysis.isScam))]

\* line 295, then part_002 95-105
BatchAnalyzeReturn ==
  /\ batch.status = "running"
  /\ running = 0
  /\ batch.next > Len(batch.items)
  /\ batch' = [batch EXCEPT !.status = "returned", !.summary = Summary(batch.results)]
  /\ UNCHANGED <<bayesClassifier, docOwner, tfidfDocuments, running, retrain, lastAnalysis, lastSocial, stored, monitor, trending>>

(***************************************************************************)
(* socialMediaMonitoringService.js: the monitoring loops and the           *)
(* SuspiciousActivity collection                                           *)
(***************************************************************************)
\* line 13
socialMediaPlatforms == <<
  Str(<<"t","w","i","t","t","e","r">>), Str(<<"f","a","c","e","b","o","o","k">>), Str(<<"i","n","s","t","a","g","r","a","m">>), Str(<<"l","i","n","k","e","d","i","n">>),
  Str(<<"t","i","k","t","o","k">>), Str(<<"y","o","u","t","u","b","e">>), Str(<<"r","e","d","d","i","t">>)
>>

\* lines 96-116: the case labels of the switch
SupportedPlatforms == {<<"t","w","i","t","t","e","r">>, <<"f","a","c","e","b","o","o","k">>, <<"i","n","s","t","a","g","r","a","m">>, <<"l","i","n","k","e","d","i","n">>, <<"t","i","k","t","o","k">>, <<"r","e","d","d","i","t">>}

\* the enumerations of the SuspiciousActivity schema
PlatformEnum == {<<"j","o","b","_","b","o","a","r","d">>, <<"s","o","c","i","a","l","_","m","e","d","i","a">>, <<"e","m","a","i","l">>, <<"w","e","b","s","i","t","e">>, <<"m","o","b","i","l","e","_","a","p","p">>, <<"o","t","h","e","r">>}

SourceEnum == {<<"l","i","n","k","e","d","i","n">>, <<"i","n","d","e","e","d">>, <<"g","l","a","s","s","d","o","o","r">>, <<"f","a","c","e","b","o","o","k">>, <<"t","w","i","t","t","e","r">>, <<"i","n","s","t","a","g","r","a","m">>, <<"t","i","k","t","o","k">>, <<"y","o","u","t","u","b","e">>, <<"r","e","d","d","i","t">>, <<"o","t","h","e","r">>}

ScamTypeEnum == {"fake_job_listing", "salary_misrepresentation", "company_impersonation",
                 "identity_theft", "financial_fraud", "work_from_home_scam",
                 "pyramid_scheme", "advance_fee_fraud", "recruitment_fraud",
                 "harassment", "bullying", "impersonation", "misinformation",
                 "copyright_violation", "spam", "phishing", "other"}

ThreatLevelEnum == {"low", "medium", "high", "critical"}

\* lines 303-305
Priority(riskLevel) ==
  IF riskLevel = "critical" THEN 5
  ELSE IF riskLevel = "high" THEN 4
  ELSE IF riskLevel = "medium" THEN 3
  ELSE 2

\* line 277: text.substring(0, 100) + (text.length > 100 ? '...' : '')
Title(text) ==
  IF Len(text) > 100 THEN SubSeq(text, 1, 100) \o <<".", ".", ".">> ELSE text

\* a record is made for every post
ShouldRecordAlways(analysis) == TRUE

\* lines 124 and 513: if (analysis.isSuspicious)
ShouldRecord(analysis) == analysis.isSuspicious

\* lines 261-267 and 297-298: engagement = {} applies to undefined only, and
\* engagement.shares of null is a TypeError
CreateThrows(content) == content.engagement.type = "null"

\* lines 269-306: the document handed to SuspiciousActivity.create
SuspiciousActivityDocument(content, platform, analysis) ==
  [activityType |-> "social_media_post",
   platform |-> platform,
   source |-> platform,
   title |-> Title(Default(content.text, Str(<<>>)).chars),
   content |-> Default(content.text, Str(<<>>)).chars,
   detectedScamTypes |-> analysis.detectedScamTypes,
   flaggedKeywords |-> analysis.flaggedKeywords,
   flaggedPatterns |-> analysis.flaggedPatterns,
   threatLevel |-> analysis.riskLevel,
   confidenceScore |-> analysis.confidence,
   detectionMethod |-> "ml_model",
   status |-> "new",
   priority |-> Priority(analysis.riskLevel)]

\* the validators of the schema that the document's fields are subject to:
\* the enumerations, required, maxlength (title 200, content 10000), min and
\* max (confidenceScore 0..1, priority 1..5)
Validates(document) ==
  /\ document.activityType \in {"job_posting", "profile_creation", "application_submission",
                                "message_sending", "social_media_post", "account_login",
                                "data_access", "report_submission", "other"}
  /\ document.platform.type = "string" /\ document.platform.chars \in PlatformEnum
  /\ document.source.type = "string" /\ document.source.chars \in SourceEnum
  /\ document.title # <<>> /\ Len(document.title) <= 200
  /\ document.content # <<>> /\ Len(document.content) <= 10000
  /\ \A i \in DOMAIN document.detectedScamTypes : document.detectedScamTypes[i] \in ScamTypeEnum
  /\ document.threatLevel \in ThreatLevelEnum
  /\ document.confidenceScore >= 0 /\ document.confidenceScore <= Scale
  /\ document.detectionMethod \in {"ml_model", "rule_engine", "user_report", "pattern_matching",
                                   "anomaly_detection", "combined"}
  /\ document.status \in {"new", "analyzed", "reviewed", "resolved", "closed"}
  /\ document.priority >= 1 /\ document.priority <= 5

\* lines 121-127 and 510-516, one turn of the loop over the posts: the
\* analysis, and for a suspicious post the creation of its record; submitted
\* is the document handed to SuspiciousActivity.create, if the turn got there
PostOutcome(content, platform) ==
  The({IF analysis.type = "throw" THEN [type |-> "throw", submitted |-> <<>>]
       ELSE IF ~ShouldRecord(analysis) THEN [type |-> "skip", submitted |-> <<>>]
       ELSE IF CreateThrows(content) THEN [type |-> "throw", submitted |-> <<>>]
       ELSE The({IF Validates(document)
                 THEN [type |-> "created", submitted |-> <<document>>]
                 ELSE [type |-> "throw", submitted |-> <<document>>] :
                 document \in {SuspiciousActivityDocument(content, platform, analysis)}}) :
       analysis \in {analyzeSocialMediaContent(content)}})

\* what a fetch of posts may deliver (positions in Posts)
Feeds == {
  <<>>,
  <<1, 6>>,
  <<1, 7>>,
  <<6, 19, 1>>,
  <<16, 1>>,
  <<21, 1>>,
  <<19, 20>>,
  <<20, 22>>
}

\* options.platforms of monitorSocialMedia
PlatformInputs == {
  Undefined,
  Arr(<<Str(<<"t","w","i","t","t","e","r">>), Str(<<"m","y","s","p","a","c","e">>), Str(<<"r","e","d","d","i","t">>)>>),
  Arr(<<Str(<<"F","a","c","e","b","o","o","k">>), Num(5), Str(<<"t","i","k","t","o","k">>)>>),
  Arr(<<>>),
  Null
}

\* options.keywords of monitorSocialMedia
KeywordInputs == {Undefined, Arr(<<>>), Null}

\* usernames and platform of monitorUserAccounts
UsernameInputs == {
  Str(<<"a","l","i","c","e">>),
  Arr(<<Str(<<"a","l","i","c","e">>), Str(<<"b","o","b">>)>>)
}

UserPlatformInputs == {Str(<<"t","w","i","t","t","e","r">>), Str(<<"o","t","h","e","r">>)}

MaxStored == 1

MonitorCall(kind, targets, platform, keywords) ==
  [status |-> "running", kind |-> kind, targets |-> targets, platform |-> platform,
   keywords |-> keywords, at |-> 1, phase |-> "fetch", posts |-> <<>>, next |-> 0,
   suspiciousActivities |-> <<>>, results |-> <<>>, outcomes |-> <<>>, submitted |-> <<>>]

MonitorThrew(kind, message) ==
  [status |-> "threw", kind |-> kind, message |-> message,
   results |-> <<>>, outcomes |-> <<>>, submitted |-> <<>>]

\* the current platform or user is given up: lines 79-81 and 519-521
TargetFailed(m) ==
  [m EXCEPT !.outcomes = Append(@, "failed"), !.at = @ + 1, !.phase = "fetch",
            !.posts = <<>>, !.next = 0, !.suspiciousActivities = <<>>]

\* lines 67-72: the destructuring of options and the start of for...of; the
\* default list applies to an undefined platforms only, and a value that is
\* not iterable makes for...of throw outside the try
MonitorSocialMediaBegin(platforms, keywords) ==
  /\ monitor.status # "running"
  /\ Len(stored) < MaxStored
  /\ monitor' = The({IF list.type = "array"
                     THEN MonitorCall("platforms", list.items, Undefined, Default(keywords, Arr(<<>>)))
                     ELSE MonitorThrew("platforms", "TypeError") :
                     list \in {Default(platforms, Arr(socialMediaPlatforms))}})
  /\ UNCHANGED <<bayesClassifier, docOwner, tfidfDocuments, running, retrain, lastAnalysis, lastSocial, batch,
                 stored, trending>>

\* lines 74-77 and 91-117: the keywords are spread, then monitorPlatform
\* switches on platform.toLowerCase() and awaits the posts of the platform
MonitorPlatformFetch(feed) ==
  /\ monitor.status = "running" /\ monitor.kind = "platforms"
  /\ monitor.phase = "fetch" /\ monitor.at <= Len(monitor.targets)
  /\ monitor' = The({IF \/ monitor.keywords.type # "array"
                        \/ platform.type # "string"
                     THEN TargetFailed(monitor)
                     ELSE IF toLowerCase(platform.chars) \notin SupportedPlatforms
                     THEN TargetFailed(monitor)
                     ELSE [monitor EXCEPT !.phase = "posts", !.posts = feed, !.next = 1] :
                     platform \in {monitor.targets[monitor.at]}})
  /\ UNCHANGED <<bayesClassifier, docOwner, tfidfDocuments, running, retrain, lastAnalysis, lastSocial, batch,
                 stored, trending>>

\* lines 121-128: one post of the platform; an error leaves monitorPlatform
\* and is caught at line 79
MonitorPlatformPost ==
  /\ monitor.status = "running" /\ monitor.kind = "platforms"
  /\ monitor.phase = "posts" /\ monitor.next <= Len(monitor.posts)
  /\ \E outcome \in {PostOutcome(Posts[monitor.posts[monitor.next]], monitor.targets[monitor.at])} :
       /\ stored' = IF outcome.type = "created" THEN stored \o outcome.submitted ELSE stored
       /\ monitor' = IF outcome.type = "throw"
                     THEN [TargetFailed(monitor) EXCEPT !.submitted = @ \o outcome.submitted]
                     ELSE [monitor EXCEPT !.next = @ + 1,
                                          !.submitted = @ \o outcome.submitted,
                                          !.suspiciousActivities =
                                            IF outcome.type = "created" THEN @ \o outcome.submitted ELSE @]
  /\ UNCHANGED <<bayesClassifier, docOwner, tfidfDocuments, running, retrain, lastAnalysis, lastSocial, batch,
                 trending>>

\* lines 130 and 78: monitorPlatform returns and its records are pushed
MonitorPlatformReturn ==
  /\ monitor.status = "running" /\ monitor.kind = "platforms"
  /\ monitor.phase = "posts" /\ monitor.next > Len(monitor.posts)
  /\ monitor' = [monitor EXCEPT !.results = @ \o monitor.suspiciousActivities,
                                !.outcomes = Append(@, "completed"),
                                !.at = @ + 1, !.phase = "fetch", !.posts = <<>>, !.next = 0,
                                !.suspiciousActivities = <<>>]
  /\ UNCHANGED <<bayesClassifier, docOwner, tfidfDocuments, running, retrain, lastAnalysis, lastSocial, batch,
                 stored, trending>>

\* line 84
MonitorSocialMediaReturn ==
  /\ monitor.status = "running" /\ monitor.kind = "platforms"
  /\ monitor.phase = "fetch" /\ monitor.at > Len(monitor.targets)
  /\ monitor' = [monitor EXCEPT !.status = "returned"]
  /\ UNCHANGED <<bayesClassifier, docOwner, tfidfDocuments, running, retrain, lastAnalysis, lastSocial, batch,
                 stored, trending>>

\* lines 501-506: a single username is wrapped into a list
MonitorUserAccountsBegin(usernames, platform) ==
  /\ monitor.status # "running"
  /\ Len(stored) < MaxStored
  /\ monitor' = MonitorCall("users",
                            IF usernames.type = "array" THEN usernames.items ELSE <<usernames>>,
                            platform, Arr(<<>>))
  /\ UNCHANGED <<bayesClassifier, docOwner, tfidfDocuments, running, retrain, lastAnalysis, lastSocial, batch,
                 stored, trending>>

\* lines 508-510: the posts of the user
MonitorUserFetch(feed) ==
  /\ monitor.status = "running" /\ monitor.kind = "users"
  /\ monitor.phase = "fetch" /\ monitor.at <= Len(monitor.targets)
  /\ monitor' = [monitor EXCEPT !.phase = "posts", !.posts = feed, !.next = 1]
  /\ UNCHANGED <<bayesClassifier, docOwner, tfidfDocuments, running, retrain, lastAnalysis, lastSocial, batch,
                 stored, trending>>

\* lines 510-518: one post of the user; a record is pushed to the returned
\* list at once, and an error is caught at line 519
MonitorUserPost ==
  /\ monitor.status = "running" /\ monitor.kind = "users"
  /\ monitor.phase = "posts" /\ monitor.next <= Len(monitor.posts)
  /\ \E outcome \in {PostOutcome(Posts[monitor.posts[monitor.next]], monitor.platform)} :
       /\ stored' = IF outcome.type = "created" THEN stored \o outcome.submitted ELSE stored
       /\ monitor' = IF outcome.type = "throw"
                     THEN [TargetFailed(monitor) EXCEPT !.submitted = @ \o outcome.submitted]
                     ELSE [monitor EXCEPT !.next = @ + 1,
                                          !.submitted = @ \o outcome.submitted,
                                          !.results =
                                            IF outcome.type = "created" THEN @ \o outcome.submitted ELSE @]
  /\ UNCHANGED <<bayesClassifier, docOwner, tfidfDocuments, running, retrain, lastAnalysis, lastSocial, batch,
                 trending>>

\* line 518: the posts of the user are exhausted
MonitorUserDone ==
  /\ monitor.status = "running" /\ monitor.kind = "users"
  /\ monitor.phase = "posts" /\ monitor.next > Len(monitor.posts)
  /\ monitor' = [monitor EXCEPT !.outcomes = Append(@, "completed"),
                                !.at = @ + 1, !.phase = "fetch", !.posts = <<>>, !.next = 0]
  /\ UNCHANGED <<bayesClassifier, docOwner, tfidfDocuments, running, retrain, lastAnalysis, lastSocial, batch,
                 stored, trending>>

\* line 525
MonitorUserAccountsReturn ==
  /\ monitor.status = "running" /\ monitor.kind = "users"
  /\ monitor.phase = "fetch" /\ monitor.at > Len(monitor.targets)
  /\ monitor' = [monitor EXCEPT !.status = "returned"]
  /\ UNCHANGED <<bayesClassifier, docOwner, tfidfDocuments, running, retrain, lastAnalysis, lastSocial, batch,
                 stored, trending>>

(***************************************************************************)
(* getTrendingSuspiciousTopics                                             *)
(***************************************************************************)
TopCount == 10

\* the names of all activities of the window, in the order forEach visits them
RECURSIVE AllNames(_, _)
AllNames(activities, field) ==
  IF activities = <<>> THEN <<>>
  ELSE Head(activities)[field] \o AllNames(Tail(activities), field)

\* lines 561-568: counts[name] = (counts[name] || 0) + 1
Occurrences(names, name) == Cardinality({i \in DOMAIN names : names[i] = name})

\* Object.entries(counts): one pair per name, in the order of insertion
Entries(names) ==
  The({[k \in DOMAIN keys |-> <<keys[k], Occurrences(names, keys[k])>>] : keys \in {Dedup(names)}})

\* .sort(([,a], [,b]) => b - a): a stable sort, larger counts first
SortByCount(entries) ==
  [k \in DOMAIN entries |->
     entries[CHOOSE i \in DOMAIN entries :
               Cardinality({j \in DOMAIN entries :
                              \/ entries[j][2] > entries[i][2]
                              \/ entries[j][2] = entries[i][2] /\ j < i}) = k - 1]]

\* the whole list
SliceAll(s, end) == s

\* .slice(0, end)
Slice(s, end) == IF Len(s) > end THEN SubSeq(s, 1, end) ELSE s

\* lines 558-579
Trending(activities) ==
  [trendingKeywords |-> Slice(SortByCount(Entries(AllNames(activities, "flaggedKeywords"))), TopCount),
   trendingScamTypes |-> Slice(SortByCount(Entries(AllNames(activities, "detectedScamTypes"))), TopCount),
   totalActivities |-> Len(activities)]

\* lines 548-580: the query delivers the activities created since the start
\* date, the stored records from some position on
GetTrendingSuspiciousTopics(from) ==
  /\ from \in 1..(Len(stored) + 1)
  /\ trending' = [type |-> "call", from |-> from, upto |-> Len(stored),
                  result |-> Trending(SubSeq(stored, from, Len(stored)))]
  /\ UNCHANGED <<bayesClassifier, docOwner, tfidfDocuments, running, retrain, lastAnalysis, lastSocial, batch,
                 stored, monitor>>

(***************************************************************************)
(* Specifications                                                          *)
(***************************************************************************)
\* single analyses of every job record, around the retrains of one request
Next ==
  \/ \E j \in DOMAIN Jobs, classifierThrows \in BOOLEAN : AnalyzeJobPosting(j, classifierThrows)
  \/ \E role \in Roles, trainingData \in TrainingInputs : RetrainModelBegin(1, role, trainingData)
  \/ UpdateModelAddDocument(1)
  \/ UpdateModelTrain(1)
  \/ RetrainModelRespond(1)

Spec == Init /\ [][Next]_vars

\* concurrent retrain requests and analyses of the probe text
NextRetrain ==
  \/ \E j \in ProbeJobs : AnalyzeJobPosting(j, FALSE)
  \/ \E r \in Retrains, trainingData \in {WellFormedList, MalformedList, Arr(<<NewScam>>)} :
       RetrainModelBegin(r, "admin", trainingData)
  \/ \E r \in Retrains : UpdateModelAddDocument(r)
  \/ \E r \in Retrains : UpdateModelTrain(r)
  \/ \E r \in Retrains : RetrainModelRespond(r)

SpecRetrain == Init /\ [][NextRetrain]_vars

\* analyses of both kinds of content under the seed model
NextScores ==
  \/ \E j \in DOMAIN Jobs, classifierThrows \in BOOLEAN : AnalyzeJobPosting(j, classifierThrows)
  \/ \E p \in DOMAIN Posts : AnalyzeSocialMediaContent(p)

SpecScores == Init /\ [][NextScores]_vars

\* batch analyses
NextBatch ==
  \/ \E jobPostings \in BatchInputs : BatchAnalyzeBegin(jobPostings)
  \/ \E classifierThrows \in BOOLEAN : BatchAnalyzeItem(classifierThrows)
  \/ BatchAnalyzeReturn

SpecBatch == Init /\ [][NextBatch]_vars

\* the job records analysed both alone and as members of a batch
RepeatedJobs == {1, 2, 3}

\* single analyses and batch analyses around a retrain, the classifier
\* answering every query
NextRepeated ==
  \/ \E j \in RepeatedJobs : AnalyzeJobPosting(j, FALSE)
  \/ \E jobPostings \in BatchInputs : BatchAnalyzeBegin(jobPostings)
  \/ BatchAnalyzeItem(FALSE)
  \/ BatchAnalyzeReturn
  \/ \E trainingData \in {WellFormedList, MalformedList} : RetrainModelBegin(1, "admin", trainingData)
  \/ UpdateModelAddDocument(1)
  \/ UpdateModelTrain(1)
  \/ RetrainModelRespond(1)

SpecRepeated == Init /\ [][NextRepeated]_vars

\* social analyses around successful and failed retrains
NextSocialRetrain ==
  \/ \E p \in DOMAIN Posts : AnalyzeSocialMediaContent(p)
  \/ \E r \in Retrains, trainingData \in {WellFormedList, MalformedList} :
       RetrainModelBegin(r, "admin", trainingData)
  \/ \E r \in Retrains : UpdateModelAddDocument(r)
  \/ \E r \in Retrains : UpdateModelTrain(r)
  \/ \E r \in Retrains : RetrainModelRespond(r)

SpecSocialRetrain == Init /\ [][NextSocialRetrain]_vars

\* the monitoring calls, one after the other
NextMonitor ==
  \/ \E platforms \in PlatformInputs, keywords \in KeywordInputs :
       MonitorSocialMediaBegin(platforms, keywords)
  \/ \E feed \in Feeds : MonitorPlatformFetch(feed)
  \/ MonitorPlatformPost
  \/ MonitorPlatformReturn
  \/ MonitorSocialMediaReturn
  \/ \E usernames \in UsernameInputs, platform \in UserPlatformInputs :
       MonitorUserAccountsBegin(usernames, platform)
  \/ \E feed \in Feeds : MonitorUserFetch(feed)
  \/ MonitorUserPost
  \/ MonitorUserDone
  \/ MonitorUserAccountsReturn

SpecMonitor == Init /\ [][NextMonitor]_vars

\* the monitoring of user accounts filling the collection, and the trending
\* query over it
NextTrending ==
  \/ \E usernames \in UsernameInputs, platform \in UserPlatformInputs :
       MonitorUserAccountsBegin(usernames, platform)
  \/ \E feed \in Feeds : MonitorUserFetch(feed)
  \/ MonitorUserPost
  \/ MonitorUserDone
  \/ MonitorUserAccountsReturn
  \/ \E from \in 1..(Len(stored) + 1) : GetTrendingSuspiciousTopics(from)

SpecTrending == Init /\ [][NextTrending]_vars

(***************************************************************************)
(* Properties                                                              *)
(***************************************************************************)
JobAnalysed == lastAnalysis.type = "call" /\ lastAnalysis.outcome.type = "analysis"
SocialAnalysed == lastSocial.type = "call" /\ lastSocial.outcome.type = "analysis"

\* what the analysis of lastAnalysis got from the classifier
ObservedClassifications ==
  IF lastAnalysis.classifierThrows THEN <<>>
  ELSE getClassifications(lastAnalysis.observed.trained, FullText(Jobs[lastAnalysis.job]))

NoClassifierSignal == ObservedClassifications = <<>>

Contains(flaggedKeywords, words) == Range(flaggedKeywords) \cap Range(words) # {}

\* C1: a failed updateModel leaves the corpus and the active model exactly
\* as they were before the call.
C1_RetrainAllOrNothing ==
  \A r \in Retrains :
    retrain[r].pc = "failed" => retrain[r].after = retrain[r].before

\* C2: every classification of an analysis sees a classifier whose trained
\* model covers all its documents, and whose documents hold the examples of
\* each retrain request completely or not at all.
C2_AnalysesSeeWholeModels ==
  lastAnalysis.type = "call" =>
    LET seen == lastAnalysis.observed
        owners == SubSeq(docOwner, 1, Len(seen.docs))
    IN  /\ seen.trained = seen.docs
        /\ \A r \in Retrains :
             LET added == Len(SelectSeq(owners, LAMBDA o : o = r))
             IN  added = 0 \/ added = Len(retrain[r].trainingData.items)

\* C3: at most one updateModel is in progress, the documents of a request are
\* one contiguous block of the corpus, and the block of a completed request
\* is its example list.
OwnedPositions(r) == {i \in DOMAIN docOwner : docOwner[i] = r}

C3_RetrainsSerialized ==
  /\ Cardinality({r \in Retrains : retrain[r].pc = "adding"}) <= 1
  /\ \A r \in Retrains : \A i, k \in OwnedPositions(r) :
       \A m \in i..k : m \in OwnedPositions(r)
  /\ \A r \in Retrains :
       retrain[r].pc \in {"updated", "responded"} =>
         /\ Cardinality(OwnedPositions(r)) = Len(retrain[r].trainingData.items)
         /\ \A i \in OwnedPositions(r) :
              bayesClassifier.docs[i] =
                retrain[r].trainingData.items[Cardinality({m \in OwnedPositions(r) : m <= i})]

\* two handlers overlap: the first awaits its performance log while the
\* second is inside updateModel, and both added documents
C3_Witness ==
  /\ MaxRetrains >= 2
  /\ retrain[1].pc = "updated"
  /\ retrain[2].pc = "adding"
  /\ OwnedPositions(1) # {}
  /\ OwnedPositions(2) # {}

\* C4: batchAnalyze never throws and returns one entry per item, in order,
\* a failed item giving a degraded entry with confidence 0 and an error note.
C4_BatchEntryPerItem ==
  /\ batch.status # "threw"
  /\ batch.status = "returned" =>
       /\ Len(batch.results) = Len(batch.items)
       /\ \A i \in DOMAIN batch.results :
            /\ batch.results[i].jobId = JobId(Jobs[batch.items[i]])
            /\ NormalizeThrows(Jobs[batch.items[i]]) =>
                 /\ batch.results[i].analysis.type = "degraded"
                 /\ batch.results[i].analysis.confidence = 0

\* C5: the summary counts a degraded entry neither as scam nor as legitimate.
C5_SummaryExcludesDegraded ==
  batch.status = "returned" =>
    batch.summary.scamsDetected + batch.summary.legitimate
      = Len(SelectSeq(batch.results, LAMBDA e : e.analysis.type = "analysis"))

\* C6: the confidence of every analysis result lies in [0, 1], on the
\* job-posting path and on the social-post path.
C6_ConfidenceInUnitInterval ==
  /\ JobAnalysed => lastAnalysis.outcome.confidence \in 0..Scale
  /\ SocialAnalysed => lastSocial.outcome.confidence \in 0..Scale

\* both paths reached the upper bound with a sum above 1
C6_Witness ==
  /\ JobAnalysed /\ lastAnalysis.job = 9 /\ lastAnalysis.outcome.confidence = Scale
  /\ SocialAnalysed /\ lastSocial.post = 3 /\ lastSocial.outcome.confidence = Scale

\* C7: confidence is min(k/10, 1) + 0.15 r + (0.1 if comparative > 0.5),
\* averaged with the scam probability p exactly when the classifier returned
\* a non-empty list, then clamped to [0, 1]; isScam iff confidence > 0.5.
ScamProbabilityOf(classifications) ==
  IF \E i \in DOMAIN classifications : classifications[i].label = "scam"
  THEN classifications[CHOOSE i \in DOMAIN classifications :
                         classifications[i].label = "scam"].value
  ELSE 0

C7_JobFusion ==
  JobAnalysed =>
    LET a == lastAnalysis.outcome
        k == Len(a.flaggedKeywords)
        r == Len(a.riskFactors)
        bonus == IF a.sentiment.tokens > 0 /\ 2 * a.sentiment.score > a.sentiment.tokens
                 THEN Scale \div 10 ELSE 0
        s == (IF k >= 10 THEN Scale ELSE k * (Scale \div 10)) + r * ((15 * Scale) \div 100) + bonus
        p == ScamProbabilityOf(ObservedClassifications)
        fused == IF NoClassifierSignal THEN 2 * s ELSE s + p   \* twice the score
        twice == IF fused > 2 * Scale THEN 2 * Scale ELSE IF fused < 0 THEN 0 ELSE fused
    IN  /\ 2 * a.confidence = twice
        /\ a.isScam <=> (twice > Scale)

\* a sum above 1 averaged with the classifier's value and clamped afterwards
C7_Witness ==
  /\ JobAnalysed /\ lastAnalysis.job = 9 /\ ~lastAnalysis.classifierThrows
  /\ ~NoClassifierSignal
  /\ ScamProbabilityOf(ObservedClassifications) < Scale
  /\ lastAnalysis.outcome.confidence = Scale

\* C8 as stated: without classifier signal, two keywords and two red flags
\* give confidence > 0.5 and isScam.
C8_TwoKeywordsTwoFlagsIsScam ==
  (/\ JobAnalysed /\ NoClassifierSignal
   /\ Len(lastAnalysis.outcome.flaggedKeywords) >= 2
   /\ Len(lastAnalysis.outcome.riskFactors) >= 2)
  => /\ 2 * lastAnalysis.outcome.confidence > Scale
     /\ lastAnalysis.outcome.isScam

\* C8 amended: without classifier signal, two keywords and two red flags
\* give confidence >= 0.5; it is > 0.5, and isScam holds, except with exactly
\* two keywords, exactly two red flags and no sentiment bonus, where
\* confidence is exactly 0.5 and isScam is false.
C8_TwoKeywordsTwoFlagsAtLeastHalf ==
  (/\ JobAnalysed /\ NoClassifierSignal
   /\ Len(lastAnalysis.outcome.flaggedKeywords) >= 2
   /\ Len(lastAnalysis.outcome.riskFactors) >= 2)
  => LET a == lastAnalysis.outcome
         minimal == /\ Len(a.flaggedKeywords) = 2
                    /\ Len(a.riskFactors) = 2
                    /\ ~(a.sentiment.tokens > 0 /\ 2 * a.sentiment.score > a.sentiment.tokens)
     IN  /\ 2 * a.confidence >= Scale
         /\ minimal => (2 * a.confidence = Scale /\ ~a.isScam)
         /\ ~minimal => (2 * a.confidence > Scale /\ a.isScam)

\* the minimal case: "fee urgent"
C8_Witness ==
  /\ JobAnalysed /\ NoClassifierSignal
  /\ Len(lastAnalysis.outcome.flaggedKeywords) = 2
  /\ Len(lastAnalysis.outcome.riskFactors) = 2
  /\ 2 * lastAnalysis.outcome.confidence = Scale

\* C9: without classifier signal, a text without lexicon entry and pattern
\* match and with neutral sentiment has confidence 0, is no scam and has no
\* red flags and no scam types.
C9_CleanTextScoresZero ==
  (/\ JobAnalysed /\ NoClassifierSignal
   /\ lastAnalysis.outcome.flaggedKeywords = <<>>
   /\ lastAnalysis.outcome.flaggedPatterns = <<>>
   /\ lastAnalysis.outcome.sentiment.score = 0)
  => /\ lastAnalysis.outcome.confidence = 0
     /\ ~lastAnalysis.outcome.isScam
     /\ lastAnalysis.outcome.riskFactors = <<>>
     /\ lastAnalysis.outcome.scamTypes = <<>>

C9_Witness ==
  /\ JobAnalysed /\ NoClassifierSignal /\ lastAnalysis.job = 1
  /\ lastAnalysis.outcome.flaggedKeywords = <<>>
  /\ lastAnalysis.outcome.flaggedPatterns = <<>>
  /\ lastAnalysis.outcome.sentiment.score = 0

\* C10: each of the three scam types is present iff its red flag is, each
\* red flag iff its keyword condition holds, high_pressure and
\* vague_description add no type, and no type appears twice.
C10_ScamTypesMatchRedFlags ==
  JobAnalysed =>
    LET a == lastAnalysis.outcome
        types == Range(a.scamTypes)
        flags == Range(a.riskFactors)
        fee == Contains(a.flaggedKeywords, << <<"f","e","e">>, <<"p","a","y","m","e","n","t">>, <<"d","e","p","o","s","i","t">> >>)
    IN  /\ "advance_fee_fraud" \in types <=> "payment_required" \in flags
        /\ "payment_required" \in flags <=>
             Contains(a.flaggedKeywords, << <<"f","e","e">>, <<"p","a","y","m","e","n","t">>, <<"d","e","p","o","s","i","t">>, <<"i","n","v","e","s","t","m","e","n","t">> >>)
        /\ "work_from_home_scam" \in types <=> "work_from_home_payment" \in flags
        /\ "work_from_home_payment" \in flags <=>
             (Contains(a.flaggedKeywords, << <<"w","o","r","k"," ","f","r","o","m"," ","h","o","m","e">> >>) /\ fee)
        /\ "recruitment_fraud" \in types <=> "international_fee" \in flags
        /\ "international_fee" \in flags <=>
             (/\ Contains(a.flaggedKeywords,
                          << <<"i","n","t","e","r","n","a","t","i","o","n","a","l">>, <<"a","b","r","o","a","d">>, <<"o","v","e","r","s","e","a","s">>, <<"v","i","s","a">>, <<"f","l","i","g","h","t">> >>)
              /\ fee)
        /\ types \subseteq {"advance_fee_fraud", "work_from_home_scam", "recruitment_fraud"}
        /\ Len(a.scamTypes) = Cardinality(types)

\* all five red flags and all three scam types at once
C10_Witness ==
  /\ JobAnalysed
  /\ Len(lastAnalysis.outcome.riskFactors) = 5
  /\ Len(lastAnalysis.outcome.scamTypes) = 3

\* the posting, as line 111 lowercases it, contains one of the words
Present(jobData, words) == \E i \in DOMAIN words : includes(FullText(jobData), words[i])

\* C11: vague_description is raised exactly when the posting contains one of
\* 'various duties', 'miscellaneous tasks', 'data entry', 'customer service'
\* and none of engineer, developer, analyst, manager, specialist; a posting
\* with 'data entry' and 'engineer' does not get it.
C11_VagueDescriptionUnlessRoleInPosting ==
  JobAnalysed =>
    ("vague_description" \in Range(lastAnalysis.outcome.riskFactors)
       <=> (/\ Present(Jobs[lastAnalysis.job], VagueWords)
            /\ ~Present(Jobs[lastAnalysis.job], RoleWords)))

\* the lowercased text of the post contains one of the words
SocialPresent(content, words) == \E i \in DOMAIN words : includes(SocialText(content), words[i])

\* C12: with k flagged keywords and m flagged patterns, confidence is
\* min(1, min(0.1 k, 0.5) + min(0.15 m, 0.5) + (0.2 if followers and likes
\* are both given and likes / followers > 0.5) + (0.15 if the sentiment
\* comparative > 0.8)), and isSuspicious holds exactly when confidence > 0.4.
\* A follower count of 0 has no ratio, so it adds nothing.
C12_SocialFusion ==
  SocialAnalysed =>
    LET a == lastSocial.outcome
        k == Len(a.flaggedKeywords)
        m == Len(a.flaggedPatterns)
        e == Posts[lastSocial.post].engagement
        given == /\ e.type = "object"
                 /\ e.likes.type = "number"
                 /\ e.followers.type = "number"
        ratioAboveHalf == /\ e.followers.value > 0
                          /\ 2 * e.likes.value > e.followers.value
        engagementBonus == IF given /\ ratioAboveHalf THEN Scale \div 5 ELSE 0
        sentimentBonus == IF a.sentiment.tokens > 0 /\ 5 * a.sentiment.score > 4 * a.sentiment.tokens
                          THEN (15 * Scale) \div 100 ELSE 0
        keywordPart == IF k >= 5 THEN Scale \div 2 ELSE k * (Scale \div 10)
        patternPart == IF 15 * m >= 50 THEN Scale \div 2 ELSE m * ((15 * Scale) \div 100)
        sum == keywordPart + patternPart + engagementBonus + sentimentBonus
    IN  /\ a.confidence = (IF sum > Scale THEN Scale ELSE sum)
        /\ a.isSuspicious <=> 10 * a.confidence > 4 * Scale

\* four keywords and nothing else: confidence exactly 0.4, not flagged
C12_Witness ==
  /\ SocialAnalysed
  /\ Len(lastSocial.outcome.flaggedKeywords) = 4
  /\ 10 * lastSocial.outcome.confidence = 4 * Scale
  /\ ~lastSocial.outcome.isSuspicious

\* C13: riskLevel is low for confidence < 0.3, medium for 0.3 <= confidence
\* < 0.6, high for 0.6 <= confidence < 0.8 and critical for confidence >= 0.8.
C13_RiskLevelBands ==
  SocialAnalysed =>
    LET a == lastSocial.outcome
        c == 10 * a.confidence
    IN  /\ a.riskLevel \in {"low", "medium", "high", "critical"}
        /\ a.riskLevel = "low" <=> c < 3 * Scale
        /\ a.riskLevel = "medium" <=> (3 * Scale <= c /\ c < 6 * Scale)
        /\ a.riskLevel = "high" <=> (6 * Scale <= c /\ c < 8 * Scale)
        /\ a.riskLevel = "critical" <=> 8 * Scale <= c

\* a post whose confidence is exactly 0.6, rated high
C13_Witness ==
  /\ SocialAnalysed
  /\ 10 * lastSocial.outcome.confidence = 6 * Scale
  /\ lastSocial.outcome.riskLevel = "high"

\* C14: a post whose text contains 'investment', 'guaranteed returns',
\* 'high profit' or 'no risk' is labelled investment_fraud.
C14_InvestmentTextIsInvestmentFraud ==
  SocialAnalysed =>
    (SocialPresent(Posts[lastSocial.post],
                   << <<"i","n","v","e","s","t","m","e","n","t">>, <<"g","u","a","r","a","n","t","e","e","d"," ","r","e","t","u","r","n","s">>, <<"h","i","g","h"," ","p","r","o","f","i","t">>, <<"n","o"," ","r","i","s","k">> >>)
       => "investment_fraud" \in Range(lastSocial.outcome.detectedScamTypes))

\* C15: analyzeJobPosting returns a result for every job record, whichever
\* of title, description, company (or company.name), requirements,
\* responsibilities, contactInfo (or its email, phone, website) is null or
\* missing.
C15_NormalizingNeverFails ==
  (lastAnalysis.type = "call" /\ Jobs[lastAnalysis.job].type = "object")
    => lastAnalysis.outcome.type = "analysis"

\* C16: analysing a post whose text is missing, null or not a string does not
\* throw; it returns a result with confidence 0 and an error field.
C16_InvalidTextGivesDegradedResult ==
  (/\ lastSocial.type = "call"
   /\ Posts[lastSocial.post].type = "object"
   /\ Posts[lastSocial.post].text.type # "string")
    => /\ lastSocial.outcome.type = "analysis"
       /\ lastSocial.outcome.confidence = 0
       /\ "error" \in DOMAIN lastSocial.outcome

\* C17: analyzeJobPosting, batchAnalyze and analyzeSocialMediaContent leave
\* every field of the service objects unchanged, the classifier and the
\* TF-IDF document store among them.
C17_AnalysesLeaveServicesUnchanged ==
  [][(lastAnalysis' # lastAnalysis \/ lastSocial' # lastSocial \/ batch' # batch)
       => UNCHANGED <<bayesClassifier, tfidfDocuments>>]_vars

\* C18: two analyses of the same job record under the same trained model
\* return equal results, whatever was analysed before or between them, and
\* whether the record is analysed alone or as a member of a batch.
C18_AnalysisDeterministic ==
  [][/\ (/\ lastAnalysis.type = "call"
         /\ tfidfDocuments' # tfidfDocuments
         /\ batch' = batch
         /\ lastAnalysis'.job = lastAnalysis.job
         /\ lastAnalysis'.classifierThrows = lastAnalysis.classifierThrows
         /\ lastAnalysis'.observed.trained = lastAnalysis.observed.trained)
        => lastAnalysis'.outcome = lastAnalysis.outcome
     /\ (/\ JobAnalysed
         /\ ~lastAnalysis.classifierThrows
         /\ Len(batch'.results) > Len(batch.results)
         /\ batch.items[batch.next] = lastAnalysis.job
         /\ bayesClassifier.trained = lastAnalysis.observed.trained)
        => batch'.results[Len(batch'.results)].analysis = lastAnalysis.outcome]_vars

\* a job record analysed alone and then, after other analyses, as a member
\* of a batch analysed after a retrain began
C18_Witness ==
  /\ JobAnalysed
  /\ tfidfDocuments >= 3
  /\ retrain[1].pc # "idle"
  /\ \E i \in DOMAIN batch.results :
       /\ i > 1
       /\ batch.items[i] = lastAnalysis.job
       /\ batch.results[i].analysis = lastAnalysis.outcome

\* the corpus holds the five scam and the five legitimate seed examples
CoversSeed(corpus) ==
  /\ \A text \in {"seed1", "seed2", "seed3", "seed4", "seed5"} :
       \E i \in DOMAIN corpus : corpus[i] = Example(text, "scam")
  /\ \A text \in {"seed6", "seed7", "seed8", "seed9", "seed10"} :
       \E i \in DOMAIN corpus : corpus[i] = Example(text, "legitimate")

\* C19: from the end of construction on, after any sequence of analyses,
\* successful retrains and failed retrains, the classifier exists and its
\* trained model covers a corpus that contains the 10 seed examples; so does
\* the classifier every analysis queried.
C19_ClassifierTrainedOnSeed ==
  /\ bayesClassifier # Null
  /\ CoversSeed(bayesClassifier.trained)
  /\ lastAnalysis.type = "call" =>
       (lastAnalysis.observed # Null /\ CoversSeed(lastAnalysis.observed.trained))

\* an analysis that queried the classifier after one retrain failed and
\* another succeeded
C19_Witness ==
  /\ retrain[1].pc = "failed"
  /\ retrain[2].pc = "responded"
  /\ lastAnalysis.type = "call"
  /\ Len(lastAnalysis.observed.trained) > Len(SeedTrainingData)

IsPrefix(s, t) == Len(s) <= Len(t) /\ SubSeq(t, 1, Len(s)) = s

\* C20: no step removes, reorders or rewrites a corpus entry, and the step
\* that completes updateModel(E) leaves the corpus equal to the corpus before
\* the call followed by the examples of E in their order, and the trained
\* model equal to the whole corpus.
C20_CorpusAppendOnly ==
  [][/\ IsPrefix(bayesClassifier.docs, bayesClassifier'.docs)
     /\ IsPrefix(bayesClassifier.trained, bayesClassifier'.trained)
     /\ \A r \in Retrains :
          (retrain[r].pc # "updated" /\ retrain'[r].pc = "updated")
            => /\ bayesClassifier'.docs =
                    retrain'[r].before.docs \o retrain'[r].trainingData.items
               /\ bayesClassifier'.trained = bayesClassifier'.docs]_vars

\* a two-example updateModel completed after another one had failed halfway
C20_Witness ==
  /\ retrain[1].pc = "failed"
  /\ retrain[2].pc = "updated"
  /\ Len(retrain[2].trainingData.items) = 2
  /\ Len(retrain[2].before.docs) > Len(SeedTrainingData)
  /\ bayesClassifier.docs = retrain[2].before.docs \o retrain[2].trainingData.items

\* C21: when the classifier throws during a job-posting analysis, the
\* analysis still returns a result, and its confidence is the clamped
\* rule-based score min(k/10, 1) + 0.15 r + sentiment bonus, not averaged
\* with anything.
C21_ClassifierThrowIsCaught ==
  (/\ lastAnalysis.type = "call"
   /\ lastAnalysis.classifierThrows
   /\ ~NormalizeThrows(Jobs[lastAnalysis.job]))
    => /\ lastAnalysis.outcome.type = "analysis"
       /\ LET a == lastAnalysis.outcome
               k == Len(a.flaggedKeywords)
               r == Len(a.riskFactors)
               bonus == IF a.sentiment.tokens > 0 /\ 2 * a.sentiment.score > a.sentiment.tokens
                        THEN Scale \div 10 ELSE 0
               rules == (IF k >= 10 THEN Scale ELSE k * (Scale \div 10))
                        + r * ((15 * Scale) \div 100) + bonus
           IN  a.confidence = (IF rules > Scale THEN Scale ELSE rules)

\* the classifier threw on a posting with two keywords and two red flags:
\* confidence 0.5, where the average with the classifier's value is lower
C21_Witness ==
  /\ JobAnalysed
  /\ lastAnalysis.classifierThrows
  /\ lastAnalysis.job = 2
  /\ 2 * lastAnalysis.outcome.confidence = Scale

\* the list holds exactly the vocabulary entries that occur in the text, each
\* once, in vocabulary order
MatchesVocabulary(flaggedKeywords, fullText, vocabulary) ==
  /\ Range(flaggedKeywords) = {vocabulary[i] : i \in {n \in DOMAIN vocabulary : includes(fullText, vocabulary[n])}}
  /\ \A i, j \in DOMAIN flaggedKeywords :
       i < j => \E m, n \in DOMAIN vocabulary :
                  m < n /\ vocabulary[m] = flaggedKeywords[i] /\ vocabulary[n] = flaggedKeywords[j]

\* C22: flaggedKeywords is exactly the list of vocabulary entries that occur
\* as substrings of the lowercased text, each entry at most once, in the
\* order of the vocabulary, on the job-posting path and on the social path;
\* the list is thereby the same for every analysis of the same text.
C22_FlaggedKeywordsInVocabularyOrder ==
  /\ JobAnalysed =>
       MatchesVocabulary(lastAnalysis.outcome.flaggedKeywords,
                         FullText(Jobs[lastAnalysis.job]), suspiciousKeywords)
  /\ SocialAnalysed =>
       MatchesVocabulary(lastSocial.outcome.flaggedKeywords,
                         SocialText(Posts[lastSocial.post]), socialKeywords)

\* on both paths a text whose keywords appear in another order than in the
\* vocabulary: 'cash' precedes 'urgent' there, 'no risk' precedes 'pyramid scheme'
C22_Witness ==
  /\ JobAnalysed /\ lastAnalysis.job = 11
  /\ lastAnalysis.outcome.flaggedKeywords = << <<"f","e","e">>, <<"c","a","s","h">>, <<"u","r","g","e","n","t">> >>
  /\ SocialAnalysed /\ lastSocial.post = 13
  /\ Len(lastSocial.outcome.flaggedKeywords) = 3

\* C24: with followers 0 or likes 0 in the engagement record, no 0.2 is added
\* and the analysis returns with the confidence it has without engagement
\* data: min(1, keyword part + pattern part + sentiment bonus).
C24_ZeroEngagementIsInapplicable ==
  (/\ lastSocial.type = "call"
   /\ ~SocialThrows(Posts[lastSocial.post])
   /\ Posts[lastSocial.post].engagement.type = "object"
   /\ \/ Posts[lastSocial.post].engagement.followers = Num(0)
      \/ Posts[lastSocial.post].engagement.likes = Num(0))
    => /\ lastSocial.outcome.type = "analysis"
       /\ LET a == lastSocial.outcome
               k == Len(a.flaggedKeywords)
               m == Len(a.flaggedPatterns)
               sentimentBonus == IF a.sentiment.tokens > 0 /\ 5 * a.sentiment.score > 4 * a.sentiment.tokens
                                 THEN (15 * Scale) \div 100 ELSE 0
               sum == (IF k >= 5 THEN Scale \div 2 ELSE k * (Scale \div 10))
                      + (IF 15 * m >= 50 THEN Scale \div 2 ELSE m * ((15 * Scale) \div 100))
                      + sentimentBonus
           IN  a.confidence = (IF sum > Scale THEN Scale ELSE sum)

\* ten likes on an account without followers: 0.2 + 0.15 and nothing more
C24_Witness ==
  /\ SocialAnalysed
  /\ Posts[lastSocial.post].engagement = Engagement(Num(10), Num(0))
  /\ 100 * lastSocial.outcome.confidence = 35 * Scale

\* C25: whenever the classifier contributes a signal, a job posting with no
\* flagged keyword and sentiment comparative <= 0.5 has confidence p / 2,
\* at most 0.5, and is not marked isScam, whatever scam probability p the
\* classifier assigns.
C25_ClassifierAloneNeverMarksScam ==
  (/\ JobAnalysed
   /\ ~NoClassifierSignal
   /\ Len(lastAnalysis.outcome.flaggedKeywords) = 0
   /\ ~(/\ lastAnalysis.outcome.sentiment.tokens > 0
        /\ 2 * lastAnalysis.outcome.sentiment.score > lastAnalysis.outcome.sentiment.tokens))
    => /\ 2 * lastAnalysis.outcome.confidence = ScamProbabilityOf(ObservedClassifications)
       /\ 2 * lastAnalysis.outcome.confidence <= Scale
       /\ ~lastAnalysis.outcome.isScam

\* the classifier assigns scam probability 1: confidence exactly 0.5
C25_Witness ==
  /\ JobAnalysed
  /\ ~NoClassifierSignal
  /\ Len(lastAnalysis.outcome.flaggedKeywords) = 0
  /\ ScamProbabilityOf(ObservedClassifications) = Scale
  /\ 2 * lastAnalysis.outcome.confidence = Scale
  /\ ~lastAnalysis.outcome.isScam

\* C26: flaggedKeywords is a subset of the service's vocabulary; visa, flight,
\* engineer, developer, analyst (job path) and investment (social path) are
\* never members of it; international_fee is raised only with international,
\* abroad or overseas flagged, and a flagged vague phrase goes without
\* vague_description only when manager or specialist is flagged.
C26_RuleWordsOutsideVocabulary ==
  /\ JobAnalysed =>
       LET flagged == Range(lastAnalysis.outcome.flaggedKeywords)
           flags == Range(lastAnalysis.outcome.riskFactors)
       IN  /\ flagged \subseteq Range(suspiciousKeywords)
           /\ flagged \cap {<<"v","i","s","a">>, <<"f","l","i","g","h","t">>, <<"e","n","g","i","n","e","e","r">>, <<"d","e","v","e","l","o","p","e","r">>, <<"a","n","a","l","y","s","t">>} = {}
           /\ "international_fee" \in flags
                => flagged \cap {<<"i","n","t","e","r","n","a","t","i","o","n","a","l">>, <<"a","b","r","o","a","d">>, <<"o","v","e","r","s","e","a","s">>} # {}
           /\ (flagged \cap Range(VagueWords) # {} /\ "vague_description" \notin flags)
                => flagged \cap {<<"m","a","n","a","g","e","r">>, <<"s","p","e","c","i","a","l","i","s","t">>} # {}
  /\ SocialAnalysed =>
       /\ Range(lastSocial.outcome.flaggedKeywords) \subseteq Range(socialKeywords)
       /\ <<"i","n","v","e","s","t","m","e","n","t">> \notin Range(lastSocial.outcome.flaggedKeywords)

\* 'visa flight fee' analysed without international_fee, and a post with
\* 'investment' analysed without any keyword
C26_Witness ==
  /\ JobAnalysed /\ lastAnalysis.job = 8
  /\ lastAnalysis.outcome.riskFactors = <<"payment_required">>
  /\ SocialAnalysed /\ lastSocial.post = 10
  /\ lastSocial.outcome.flaggedKeywords = <<>>

\* C30: a social post analysed again gets the same result, whatever
\* updateModel calls, successful or failed, came in between, and no social
\* analysis changes the classifier.
C30_SocialAnalysisIgnoresClassifier ==
  [][/\ (lastSocial.type = "call" /\ lastSocial'.post = lastSocial.post)
        => lastSocial'.outcome = lastSocial.outcome
     /\ lastSocial' # lastSocial => UNCHANGED <<bayesClassifier, docOwner>>]_vars

\* a post analysed under a classifier that one retrain extended and another
\* left half-updated
C30_Witness ==
  /\ SocialAnalysed
  /\ lastSocial.post = 13
  /\ \E r \in Retrains : retrain[r].pc = "responded"
  /\ \E r \in Retrains : retrain[r].pc = "failed"
  /\ bayesClassifier.docs # bayesClassifier.trained
(***************************************************************************)
(* The monitoring loops and the trending query                             *)
(***************************************************************************)
\* the documents the monitoring call has handed to SuspiciousActivity.create
Submitted == IF monitor.status = "idle" THEN <<>> ELSE monitor.submitted

\* C27: every suspicious-activity record made by monitorPlatform or
\* monitorUserAccounts has a confidence above 0.4, a threat level other than
\* low and a priority of 3, 4 or 5, and its threat level is high or critical
\* exactly when its confidence is at least 0.6
C27_RecordsComeFromSuspiciousPosts ==
  \A i \in DOMAIN Submitted :
    /\ 10 * Submitted[i].confidenceScore > 4 * Scale
    /\ Submitted[i].threatLevel # "low"
    /\ Submitted[i].priority \in {3, 4, 5}
    /\ Submitted[i].threatLevel \in {"high", "critical"}
         <=> 10 * Submitted[i].confidenceScore >= 6 * Scale

\* a monitoring of user accounts has returned after making a record of
\* medium and a record of critical threat level, one of them stored
C27_Witness ==
  /\ monitor.status = "returned" /\ monitor.kind = "users"
  /\ \E i, j \in DOMAIN Submitted :
       /\ Submitted[i].threatLevel = "medium" /\ Submitted[i].priority = 3
       /\ Submitted[j].threatLevel = "critical" /\ Submitted[j].priority = 5
  /\ monitor.results # <<>>

\* C28: every record that createSuspiciousActivityRecord submits for storage
\* satisfies the enumerations and ranges of the SuspiciousActivity schema
C28_SubmittedRecordsSatisfySchema ==
  \A i \in DOMAIN Submitted : Validates(Submitted[i])

\* C29: monitorSocialMedia never throws; it processes the requested
\* platforms in order, each one ending as completed or failed, and a failed
\* platform adds nothing to the returned list
C29_MonitorSocialMediaNeverThrows ==
  (monitor.status # "idle" /\ monitor.kind = "platforms") =>
    /\ monitor.status # "threw"
    /\ monitor.status = "running" => Len(monitor.outcomes) = monitor.at - 1
    /\ monitor.status = "returned" => Len(monitor.outcomes) = Len(monitor.targets)
    /\ (\A k \in DOMAIN monitor.outcomes : monitor.outcomes[k] = "failed") => monitor.results = <<>>

\* the activities the last trending query has read
TrendingWindow == SubSeq(stored, trending.from, trending.upto)

\* the number of occurrences of a name in a field across the window
WindowCount(field, name) ==
  SeqSum([a \in DOMAIN TrendingWindow |->
            Cardinality({i \in DOMAIN TrendingWindow[a][field] : TrendingWindow[a][field][i] = name})])

WindowNames(field) ==
  UNION {{TrendingWindow[a][field][i] : i \in DOMAIN TrendingWindow[a][field]} : a \in DOMAIN TrendingWindow}

\* a list of at most 10 (name, count) pairs in non-increasing order of
\* count, each count the number of occurrences across the window, no name
\* outside the list counted higher than one inside
TopOfWindow(list, field) ==
  /\ Len(list) <= 10
  /\ \A k \in DOMAIN list : list[k][2] = WindowCount(field, list[k][1]) /\ list[k][2] > 0
  /\ \A k, l \in DOMAIN list : k < l => list[k][2] >= list[l][2] /\ list[k][1] # list[l][1]
  /\ \A name \in WindowNames(field) \ {list[k][1] : k \in DOMAIN list} :
       \A k \in DOMAIN list : WindowCount(field, name) <= list[k][2]

TrendingAnswered ==
  trending.type = "call" =>
    /\ TopOfWindow(trending.result.trendingKeywords, "flaggedKeywords")
    /\ TopOfWindow(trending.result.trendingScamTypes, "detectedScamTypes")

\* C23: getTrendingSuspiciousTopics returns the top 10 keywords and the top
\* 10 scam types of the window by count, and leaves the stored results as
\* they are
C23_TrendingIsTopTenByCount ==
  [][trending' # trending => (stored' = stored /\ TrendingAnswered')]_vars

\* a query over a window with more than 10 keywords of differing counts
C23_Witness ==
  /\ trending.type = "call"
  /\ Cardinality(WindowNames("flaggedKeywords")) > 10
  /\ Len(trending.result.trendingKeywords) = 10
  /\ trending.result.trendingKeywords[1][2] > trending.result.trendingKeywords[10][2]
  /\ trending.result.trendingScamTypes # <<>>

====
